---------------------------- MODULE Spec2Model ----------------------------
(***************************************************************************)
(* Drift: zoom-segment generation, zoom evaluation, cursor smoothing and   *)
(* the spring solver behind them (src-tauri/src/commands/zoom.rs,          *)
(* src-tauri/src/rendering/{spring_physics,zoom_interpolation}.rs).        *)
(*                                                                         *)
(* Number representation.  The Rust code computes in f32/f64.  Here every  *)
(* real-valued quantity is a fixed-point integer with six decimals:        *)
(*   - a normalised coordinate, a zoom level, an easing value, a spring    *)
(*     displacement or velocity v is held as v * FP  (0.5 is 500000);      *)
(*   - a time in SECONDS s is held as s * FP, i.e. in microseconds;        *)
(*   - a time in MILLISECONDS is held as a whole number of milliseconds.   *)
(* TLC integers are 32 bits wide, so products and quotients of fixed-point *)
(* numbers are computed limb-wise (MulFP, DivFP) and never overflow for    *)
(* magnitudes below 2000.                                                  *)
(***************************************************************************)
EXTENDS Integers, Sequences, FiniteSets, TLC

VARIABLES
  call,       \* the invocation being served: the function's name and its arguments
  result,     \* what the function returned (<<>> until it has)
  done,       \* whether the invocation has returned
  compositor, \* the GpuCompositor, NoCompositor while none has been created
  spring,     \* the SpringSimulation a caller owns, NoSpring while there is none
  tracker,    \* the ClickProfileTracker of a replay, NoTracker while there is none
  encoder,    \* the encode loop of an export and the ffmpeg pipe it writes to
  recorder,   \* the NativeRecorderState and the capture threads started on it
  listener    \* the input listener state and the listener threads started on it

vars == <<call, result, done, compositor, spring, tracker, encoder, recorder, listener>>

NoCompositor == <<>>
NoSpring == <<>>
NoTracker == <<>>
NoEncoder == <<>>
NoRecorder == <<>>
NoListener == <<>>

\* ------------------------------------------------------------------------
\* Fixed-point arithmetic
\* ------------------------------------------------------------------------

Limb == 10 ^ 3
FP == Limb * Limb

\* the only member of a one-element set: TheOne({e(v) : v \in {x}}) is
\* e(x) with x evaluated once
TheOne(S) == CHOOSE v \in S : TRUE

Abs(a) == IF a < 0 THEN -a ELSE a
Sgn(a) == IF a < 0 THEN -1 ELSE 1

\* integer quotient rounded toward zero
DivT(a, n) == TheOne({Sgn(x) * (Abs(x) \div n) : x \in {a}})
Min2(a, b) == IF a < b THEN a ELSE b
Max2(a, b) == IF a > b THEN a ELSE b

\* f64::clamp / f32::clamp (callers keep lo <= hi; Rust panics otherwise)
Clamp(v, lo, hi) == IF v < lo THEN lo ELSE IF v > hi THEN hi ELSE v

\* |a| * |b| / FP, exact floor, without leaving 32 bits
MulAbs(a, b) ==
  LET a1 == a \div Limb
      a0 == a % Limb
      b1 == b \div Limb
      b0 == b % Limb
  IN  a1 * b1 + ((a1 * b0 + a0 * b1) + ((a0 * b0) \div Limb)) \div Limb

\* a * b in fixed point (rounded toward zero)
MulFP(a, b) ==
  TheOne({Sgn(x) * Sgn(y) * TheOne({MulAbs(ax, ay) : ax \in {Abs(x)}, ay \in {Abs(y)}}) :
            x \in {a}, y \in {b}})

\* n further decimal digits of r / b, by long division (0 <= r < b)
RECURSIVE LongDiv(_, _, _)
LongDiv(r, b, n) ==
  IF n = 0 THEN 0
  ELSE TheOne({((r * 10) \div b) * (10 ^ (n - 1)) + LongDiv(next, b, n - 1) :
                 next \in {(r * 10) % b}})

\* a / b in fixed point (rounded toward zero), b # 0
DivFP(a, b) ==
  TheOne({Sgn(a) * Sgn(b) * ((aa \div bb) * FP + LongDiv(aa % bb, bb, 6)) :
            aa \in {Abs(a)}, bb \in {Abs(b)}})

\* largest r in lo..hi with r * r <= n (plain integers)
RECURSIVE ISqrtSearch(_, _, _)
ISqrtSearch(n, lo, hi) ==
  IF lo >= hi THEN lo
  ELSE TheOne({IF mid * mid <= n THEN ISqrtSearch(n, mid, hi)
                 ELSE ISqrtSearch(n, lo, mid - 1) :
                 mid \in {(lo + hi + 1) \div 2}})

ISqrt(n) == TheOne({ISqrtSearch(v, 0, 46340) : v \in {n}})

\* smallest r in lo..hi whose fixed-point square is >= a
RECURSIVE SqrtSearch(_, _, _)
SqrtSearch(a, lo, hi) ==
  IF lo >= hi THEN lo
  ELSE TheOne({IF MulAbs(mid, mid) >= a THEN SqrtSearch(a, lo, mid)
                 ELSE SqrtSearch(a, mid + 1, hi) :
                 mid \in {(lo + hi) \div 2}})

\* f32::sqrt / f64::sqrt on a fixed-point number a >= 0
SqrtFP(a) ==
  TheOne({TheOne({SqrtSearch(v, r * Limb, (r + 1) * Limb) : r \in {ISqrt(v)}}) : v \in {a}})

\* sqrt(a*a + b*b): the magnitude of a vector, kept exact to one unit for
\* short vectors (the rest thresholds are 10 and 100 units)
Hypot(a, b) ==
  TheOne({IF Abs(x) < 30000 /\ Abs(y) < 30000
          THEN ISqrt(x * x + y * y)
          ELSE SqrtFP(MulFP(x, x) + MulFP(y, y)) :
            x \in {a}, y \in {b}})

\* sum_{k >= i} term_k of exp(-z), term = (-z)^i / i!, for 0 <= z <= FP/4
RECURSIVE ExpSeries(_, _, _)
ExpSeries(z, term, i) ==
  IF term = 0 \/ i > 12 THEN 0
  ELSE term + TheOne({ExpSeries(z, next, i + 1) :
                        next \in {DivT(0 - MulFP(term, z), i)}})

\* exp(-y) for y >= 0: halve the argument down to 1/4, then square back
RECURSIVE ExpNeg(_)
ExpNeg(y) ==
  IF y >= 20 * FP THEN 0
  ELSE IF y > FP \div 4
       THEN TheOne({MulFP(h, h) : h \in {ExpNeg(y \div 2)}})
       ELSE ExpSeries(y, FP, 1)

\* f32::exp of a fixed-point x <= 0 (every exponent the solver forms)
ExpFP(x) == TheOne({ExpNeg(y) : y \in {0 - x}})

Pi == 3 * FP + 141593
TwoPi == 2 * Pi

\* Taylor series x^i/i! - x^(i+2)/(i+2)! + ... for |x| <= Pi
RECURSIVE TrigSeries(_, _, _)
TrigSeries(x2, term, i) ==
  IF term = 0 \/ i > 24 THEN 0
  ELSE term + TheOne({TrigSeries(x2, next, i + 2) :
                        next \in {DivT(0 - MulFP(term, x2), (i + 1) * (i + 2))}})

\* x reduced to (-Pi, Pi]
Reduce(x) == TheOne({IF r > Pi THEN r - TwoPi ELSE r : r \in {x % TwoPi}})

SinFP(x) ==
  TheOne({TheOne({TrigSeries(r2, r, 1) : r2 \in {MulFP(r, r)}}) : r \in {Reduce(x)}})
CosFP(x) ==
  TheOne({TheOne({TrigSeries(r2, FP, 0) : r2 \in {MulFP(r, r)}}) : r \in {Reduce(x)}})

\* ------------------------------------------------------------------------
\* rendering/spring_physics.rs
\* ------------------------------------------------------------------------

\* SpringConfig presets: tension, mass, friction
cursor_default == [tension |-> 100 * FP, mass |-> FP, friction |-> 20 * FP]
cursor_snappy == [tension |-> 700 * FP, mass |-> FP, friction |-> 30 * FP]
cursor_drag == [tension |-> 80 * FP, mass |-> (12 * FP) \div 10, friction |-> 26 * FP]
screen_movement == [tension |-> 200 * FP, mass |-> (225 * FP) \div 100, friction |-> 40 * FP]

REST_DISPLACEMENT_THRESHOLD == 10
REST_VELOCITY_THRESHOLD == 100
CRITICAL_EPSILON == 10000

\* SpringSimulation::new
SpringNew(config) ==
  [config |-> config, position |-> <<0, 0>>, velocity |-> <<0, 0>>, target |-> <<0, 0>>]

set_position(sim, pos) == [sim EXCEPT !.position = pos]
set_velocity(sim, vel) == [sim EXCEPT !.velocity = vel]
set_target(sim, target) == [sim EXCEPT !.target = target]

\* underdamped branch of solve_spring_1d
SolveUnder(displacement, velocity, t, omega0, zeta) ==
  TheOne({TheOne({<<MulFP(decay, MulFP(a, cos_term) + MulFP(b, sin_term)),
                    MulFP(decay,
                      MulFP(MulFP(b, omega_d) - MulFP(a, zw), cos_term)
                      - MulFP(MulFP(a, omega_d) + MulFP(b, zw), sin_term))>> :
                    decay \in {ExpFP(0 - MulFP(zw, t))},
                    cos_term \in {CosFP(MulFP(omega_d, t))},
                    sin_term \in {SinFP(MulFP(omega_d, t))},
                    a \in {displacement},
                    b \in {DivFP(velocity + MulFP(displacement, zw), Max2(omega_d, 100))}}) :
            omega_d \in {MulFP(omega0, SqrtFP(FP - MulFP(zeta, zeta)))},
            zw \in {MulFP(zeta, omega0)}})

\* overdamped branch of solve_spring_1d, |denom| < 1e-10: near-critical
\* fallback
SolveOverNearCritical(displacement, velocity, t, s1, s2) ==
  TheOne({TheOne({TheOne({<<MulFP(decay, abt), MulFP(decay, k + MulFP(s_avg, abt))>> :
                            abt \in {displacement + MulFP(k, t)}}) :
                    decay \in {ExpFP(MulFP(s_avg, t))},
                    k \in {velocity - MulFP(displacement, s_avg)}}) :
            s_avg \in {(s1 + s2) \div 2}})

\* overdamped branch of solve_spring_1d, the two exponentials
SolveOverTwoRoots(displacement, velocity, t, s1, s2) ==
  TheOne({TheOne({<<MulFP(c1, e1) + MulFP(c2, e2),
                    MulFP(MulFP(c1, s1), e1) + MulFP(MulFP(c2, s2), e2)>> :
                    c2 \in {displacement - c1},
                    e1 \in {ExpFP(MulFP(s1, t))},
                    e2 \in {ExpFP(MulFP(s2, t))}}) :
            c1 \in {DivFP(velocity - MulFP(displacement, s2), s1 - s2)}})

\* overdamped branch of solve_spring_1d
SolveOver(displacement, velocity, t, omega0, zeta) ==
  TheOne({TheOne({IF s1 - s2 = 0
                  THEN SolveOverNearCritical(displacement, velocity, t, s1, s2)
                  ELSE SolveOverTwoRoots(displacement, velocity, t, s1, s2) :
                    s1 \in {0 - MulFP(omega0, zeta - sqrt_term)},
                    s2 \in {0 - MulFP(omega0, zeta + sqrt_term)}}) :
            sqrt_term \in {SqrtFP(MulFP(zeta, zeta) - FP)}})

\* critically damped branch of solve_spring_1d
SolveCritical(displacement, velocity, t, omega0) ==
  TheOne({TheOne({<<MulFP(decay, abt), MulFP(decay, b - MulFP(omega0, abt))>> :
                    abt \in {displacement + MulFP(b, t)}}) :
            decay \in {ExpFP(0 - MulFP(omega0, t))},
            b \in {velocity + MulFP(displacement, omega0)}})

\* a solver under which a spring never moves
HoldDisplacement(displacement, velocity, t, omega0, zeta) == <<displacement, velocity>>

\* solve_spring_1d: <<new displacement, new velocity>> after t seconds
solve_spring_1d(displacement, velocity, t, omega0, zeta) ==
  TheOne({IF z < FP - CRITICAL_EPSILON
          THEN SolveUnder(d, v, t, w, z)
          ELSE IF z > FP + CRITICAL_EPSILON
               THEN SolveOver(d, v, t, w, z)
               ELSE SolveCritical(d, v, t, w) :
            d \in {displacement}, v \in {velocity}, w \in {omega0}, z \in {zeta}})

\* SpringConfig::scaled
scaled(config, tension_scale, mass_scale, friction_scale) ==
  [tension |-> MulFP(config.tension, tension_scale),
   mass |-> Max2(MulFP(config.mass, mass_scale), Limb),
   friction |-> MulFP(config.friction, friction_scale)]

set_config(sim, config) == [sim EXCEPT !.config = config]

\* the update of run without rest detection: the solved state is kept
AdvanceWithoutRest(sim, t) ==
  TheOne({TheOne({TheOne({
      [sim EXCEPT !.position = <<sim.target[1] + sx[1], sim.target[2] + sy[1]>>,
                  !.velocity = <<sx[2], sy[2]>>] :
        sx \in {solve_spring_1d(sim.position[1] - sim.target[1], sim.velocity[1],
                                t, omega0, zeta)},
        sy \in {solve_spring_1d(sim.position[2] - sim.target[2], sim.velocity[2],
                                t, omega0, zeta)}}) :
      omega0 \in {SqrtFP(DivFP(stiffness, mass))},
      zeta \in {DivFP(damping, 2 * SqrtFP(MulFP(stiffness, mass)))}}) :
    mass \in {Max2(sim.config.mass, Limb)},
    stiffness \in {sim.config.tension},
    damping \in {sim.config.friction}})

\* the update of SpringSimulation::run over t seconds, without its guard
Advance(sim, t) ==
  TheOne({TheOne({TheOne({
      IF Hypot(sx[1], sy[1]) < REST_DISPLACEMENT_THRESHOLD
         /\ Hypot(sx[2], sy[2]) < REST_VELOCITY_THRESHOLD
      THEN \* rest detection: snap to the target
           [sim EXCEPT !.position = sim.target, !.velocity = <<0, 0>>]
      ELSE [sim EXCEPT !.position = <<sim.target[1] + sx[1], sim.target[2] + sy[1]>>,
                       !.velocity = <<sx[2], sy[2]>>] :
        sx \in {solve_spring_1d(sim.position[1] - sim.target[1], sim.velocity[1],
                                t, omega0, zeta)},
        sy \in {solve_spring_1d(sim.position[2] - sim.target[2], sim.velocity[2],
                                t, omega0, zeta)}}) :
      omega0 \in {SqrtFP(DivFP(stiffness, mass))},
      zeta \in {DivFP(damping, 2 * SqrtFP(MulFP(stiffness, mass)))}}) :
    mass \in {Max2(sim.config.mass, Limb)},
    stiffness \in {sim.config.tension},
    damping \in {sim.config.friction}})

\* SpringSimulation::run without the guard on dt_ms
RunUnguarded(sim, dt) == Advance(sim, dt)

\* SpringSimulation::run for a dt_ms given in thousandths of a millisecond:
\* the simulation after the call (the value returned is its position)
RunFraction(sim, dt) == IF dt <= 0 THEN sim ELSE Advance(sim, dt)

\* SpringSimulation::run(dt_ms) for a dt_ms in whole milliseconds
run(sim, dt_ms) == RunFraction(sim, dt_ms * Limb)

\* SpringSimulation::is_at_rest
is_at_rest(sim) ==
  /\ Hypot(sim.position[1] - sim.target[1], sim.position[2] - sim.target[2])
        < REST_DISPLACEMENT_THRESHOLD
  /\ Hypot(sim.velocity[1], sim.velocity[2]) < REST_VELOCITY_THRESHOLD

\* the curve shared by spring_ease and spring_ease_out, for 0 < t < 1
EaseCurve(t, omega0, zeta) ==
  IF zeta < FP
  THEN LET omega_d == MulFP(omega0, SqrtFP(FP - MulFP(zeta, zeta)))
           zw == MulFP(zeta, omega0)
           decay == ExpFP(0 - MulFP(zw, t))
           wt == MulFP(omega_d, t)
       IN  FP - MulFP(decay, CosFP(wt) + MulFP(DivFP(zw, omega_d), SinFP(wt)))
  ELSE LET decay == ExpFP(0 - MulFP(omega0, t))
       IN  FP - MulFP(decay, FP + MulFP(omega0, t))

\* spring_ease(t, stiffness, damping, mass)
spring_ease(t, stiffness, damping, mass) ==
  IF t <= 0 THEN 0
  ELSE IF t >= FP THEN FP
  ELSE EaseCurve(t, SqrtFP(DivFP(stiffness, mass)),
                 DivFP(damping, 2 * SqrtFP(MulFP(stiffness, mass))))

\* spring_ease_out(t, stiffness, damping, mass): omega0 * 0.9, zeta * 1.15
spring_ease_out(t, stiffness, damping, mass) ==
  IF t <= 0 THEN 0
  ELSE IF t >= FP THEN FP
  ELSE EaseCurve(t, (SqrtFP(DivFP(stiffness, mass)) * 9) \div 10,
                 MulFP(DivFP(damping, 2 * SqrtFP(MulFP(stiffness, mass))), (115 * FP) \div 100))

\* instant_ease(t): cubic hermite
instant_ease(t) ==
  IF t <= 0 THEN 0
  ELSE IF t >= FP THEN FP
  ELSE MulFP(MulFP(t, t), 3 * FP - 2 * t)

\* ------------------------------------------------------------------------
\* commands/zoom.rs: constants (seconds and unit-less values times FP,
\* milliseconds as whole numbers)
\* ------------------------------------------------------------------------

ZOOM_DURATION == 1000000
CLICK_GROUP_TIME_THRESHOLD_SECS == 2500000
CLICK_GROUP_SPATIAL_THRESHOLD == 150000
CLICK_PRE_PADDING == 400000
CLICK_POST_PADDING == 2000000
MERGE_GAP_THRESHOLD == 800000
MIN_SEGMENT_DURATION == 1200000
STOP_PADDING_SECONDS == 500000
AUTO_ZOOM_AMOUNT == 1800000
CURSOR_IDLE_DELAY_MS == 600
CURSOR_FADE_OUT_MS == 500
CLICK_VISUAL_DURATION_MS == 350
SHAKE_THRESHOLD == 15000
SHAKE_WINDOW_MS == 100
SCREEN_SPRING_STIFFNESS == 120000000
SCREEN_SPRING_DAMPING == 32000000
SCREEN_SPRING_MASS == 2500000

\* time_ms / 1000.0: milliseconds to seconds
SecsOfMs(ms) == ms * Limb

\* ------------------------------------------------------------------------
\* commands/zoom.rs: generate_zoom_segments
\* ------------------------------------------------------------------------

\* the activity end limit of a recording of max_duration seconds
ActivityEndLimit(max_duration) ==
  IF max_duration > STOP_PADDING_SECONDS
  THEN max_duration - STOP_PADDING_SECONDS
  ELSE max_duration

\* down-clicks within the valid time range, in input order
DownClicks(clicks, activity_end_limit) ==
  SelectSeq(clicks, LAMBDA c : c.down /\ SecsOfMs(c.time) < activity_end_limit)

\* moves.iter().rfind(|m| m.time <= click_time): index of the last such move, 0 if none
RECURSIVE RFindMove(_, _, _)
RFindMove(moves, t, i) ==
  IF i = 0 THEN 0
  ELSE IF moves[i].time <= t THEN i
  ELSE RFindMove(moves, t, i - 1)

\* (time in seconds, x, y) of a click: the nearest preceding move's position,
\* the click's own coordinates when there is none
ClickPosition(click, moves) ==
  LET k == RFindMove(moves, click.time, Len(moves))
  IN  IF k = 0 THEN <<SecsOfMs(click.time), click.x, click.y>>
      ELSE <<SecsOfMs(click.time), moves[k].x, moves[k].y>>

ClickPositions(down_clicks, moves) ==
  [i \in 1..Len(down_clicks) |-> ClickPosition(down_clicks[i], moves)]

\* a grouping by position alone, whatever the time between the clicks
CanJoinSpatialOnly(group, idx, click_positions) ==
  \E g \in 1..Len(group) :
    LET p == click_positions[idx]
        q == click_positions[group[g]]
    IN  Hypot(p[2] - q[2], p[3] - q[3]) < CLICK_GROUP_SPATIAL_THRESHOLD

\* can click idx join the group: close in time and space to any member
CanJoin(group, idx, click_positions) ==
  \E g \in 1..Len(group) :
    LET p == click_positions[idx]
        q == click_positions[group[g]]
        time_close == Abs(p[1] - q[1]) < CLICK_GROUP_TIME_THRESHOLD_SECS
        spatial_close == Hypot(p[2] - q[2], p[3] - q[3]) < CLICK_GROUP_SPATIAL_THRESHOLD
    IN  time_close /\ spatial_close

\* index of the first group (from k on) the click can join, 0 if none
RECURSIVE FirstJoinable(_, _, _, _)
FirstJoinable(groups, idx, click_positions, k) ==
  IF k > Len(groups) THEN 0
  ELSE IF CanJoin(groups[k], idx, click_positions) THEN k
  ELSE FirstJoinable(groups, idx, click_positions, k + 1)

\* the grouping loop, from click idx on
RECURSIVE GroupClicks(_, _, _)
GroupClicks(click_positions, idx, groups) ==
  IF idx > Len(click_positions) THEN groups
  ELSE LET k == FirstJoinable(groups, idx, click_positions, 1)
       IN  IF k > 0
           THEN GroupClicks(click_positions, idx + 1,
                            [groups EXCEPT ![k] = Append(@, idx)])
           ELSE GroupClicks(click_positions, idx + 1, Append(groups, <<idx>>))

\* fold(INFINITY, min) and fold(NEG_INFINITY, max) over a non-empty group's times
RECURSIVE FoldMin(_, _, _)
FoldMin(group, click_positions, i) ==
  IF i = Len(group) THEN click_positions[group[i]][1]
  ELSE Min2(click_positions[group[i]][1], FoldMin(group, click_positions, i + 1))

RECURSIVE FoldMax(_, _, _)
FoldMax(group, click_positions, i) ==
  IF i = Len(group) THEN click_positions[group[i]][1]
  ELSE Max2(click_positions[group[i]][1], FoldMax(group, click_positions, i + 1))

\* a group's padded interval <<start, end>>
GroupIntervalFirstLast(group, click_positions, activity_end_limit) ==
  <<Max2(click_positions[group[1]][1] - CLICK_PRE_PADDING, 0),
    Min2(click_positions[group[Len(group)]][1] + CLICK_POST_PADDING, activity_end_limit)>>

GroupIntervalFromLast(group, click_positions, activity_end_limit) ==
  <<Max2(FoldMax(group, click_positions, 1) - CLICK_PRE_PADDING, 0),
    Min2(FoldMax(group, click_positions, 1) + CLICK_POST_PADDING, activity_end_limit)>>

GroupInterval(group, click_positions, activity_end_limit) ==
  <<Max2(FoldMin(group, click_positions, 1) - CLICK_PRE_PADDING, 0),
    Min2(FoldMax(group, click_positions, 1) + CLICK_POST_PADDING, activity_end_limit)>>

\* the intervals of groups k.., those with end > start only
RECURSIVE GroupIntervals(_, _, _, _)
GroupIntervals(groups, click_positions, activity_end_limit, k) ==
  IF k > Len(groups) THEN <<>>
  ELSE LET iv == GroupInterval(groups[k], click_positions, activity_end_limit)
           rest == GroupIntervals(groups, click_positions, activity_end_limit, k + 1)
       IN  IF iv[2] > iv[1] THEN <<iv>> \o rest ELSE rest

\* stable insertion of an interval into a list sorted by start
RECURSIVE InsertByStart(_, _)
InsertByStart(sorted, iv) ==
  IF sorted = <<>> THEN <<iv>>
  ELSE IF iv[1] < Head(sorted)[1] THEN <<iv>> \o sorted
  ELSE <<Head(sorted)>> \o InsertByStart(Tail(sorted), iv)

\* intervals.sort_by(start): stable
RECURSIVE SortByStart(_, _)
SortByStart(intervals, n) ==
  IF n = 0 THEN <<>>
  ELSE InsertByStart(SortByStart(intervals, n - 1), intervals[n])

\* the merge loop over sorted intervals i.., merged being the list so far
RECURSIVE MergeOverlapOnly(_, _, _)
MergeOverlapOnly(intervals, i, merged) ==
  IF i > Len(intervals) THEN merged
  ELSE LET iv == intervals[i]
           n == Len(merged)
       IN  IF n > 0 /\ iv[1] <= merged[n][2]
           THEN MergeOverlapOnly(intervals, i + 1,
                  [merged EXCEPT ![n] = <<@[1], Max2(@[2], iv[2])>>])
           ELSE MergeOverlapOnly(intervals, i + 1, Append(merged, iv))

RECURSIVE MergeIntervals(_, _, _)
MergeIntervals(intervals, i, merged) ==
  IF i > Len(intervals) THEN merged
  ELSE LET iv == intervals[i]
           n == Len(merged)
       IN  IF n > 0 /\ iv[1] <= merged[n][2] + MERGE_GAP_THRESHOLD
           THEN MergeIntervals(intervals, i + 1,
                  [merged EXCEPT ![n] = <<@[1], Max2(@[2], iv[2])>>])
           ELSE MergeIntervals(intervals, i + 1, Append(merged, iv))

\* merged intervals to ZoomSegments, too-short ones filtered out
RECURSIVE ToSegmentsUnfiltered(_, _)
ToSegmentsUnfiltered(merged, i) ==
  IF i > Len(merged) THEN <<>>
  ELSE <<[start |-> merged[i][1], end |-> merged[i][2], amount |-> AUTO_ZOOM_AMOUNT]>>
       \o ToSegmentsUnfiltered(merged, i + 1)

RECURSIVE ToSegments(_, _)
ToSegments(merged, i) ==
  IF i > Len(merged) THEN <<>>
  ELSE IF merged[i][2] - merged[i][1] < MIN_SEGMENT_DURATION
       THEN ToSegments(merged, i + 1)
       ELSE <<[start |-> merged[i][1], end |-> merged[i][2], amount |-> AUTO_ZOOM_AMOUNT]>>
            \o ToSegments(merged, i + 1)

generate_segments_impl(clicks, moves, max_duration) ==
  IF max_duration <= 0 THEN <<>>
  ELSE
    LET activity_end_limit == ActivityEndLimit(max_duration)
        down_clicks == DownClicks(clicks, activity_end_limit)
        click_positions == ClickPositions(down_clicks, moves)
        groups == GroupClicks(click_positions, 1, <<>>)
        intervals == GroupIntervals(groups, click_positions, activity_end_limit, 1)
        sorted == SortByStart(intervals, Len(intervals))
        merged == MergeIntervals(sorted, 1, <<>>)
    IN  IF activity_end_limit <= 0 THEN <<>>
        ELSE IF down_clicks = <<>> THEN <<>>
        ELSE IF intervals = <<>> THEN <<>>
        ELSE ToSegments(merged, 1)

generate_zoom_segments(clicks, moves, duration_ms) ==
  generate_segments_impl(clicks, moves, SecsOfMs(duration_ms))

\* ------------------------------------------------------------------------
\* commands/zoom.rs: evaluate_zoom_at_time
\* ------------------------------------------------------------------------

\* index of the first segment with start < time <= end, 0 if none
RECURSIVE CurrentSegment(_, _, _)
CurrentSegment(segments, time_secs, i) ==
  IF i > Len(segments) THEN 0
  ELSE IF time_secs > segments[i].start /\ time_secs <= segments[i].end THEN i
  ELSE CurrentSegment(segments, time_secs, i + 1)

\* segments.iter().rev(): index of the last segment with end <= time, 0 if none
RECURSIVE RecentlyLeftForward(_, _, _)
RecentlyLeftForward(segments, time_secs, i) ==
  IF i = 0 THEN 0
  ELSE LET k == Len(segments) + 1 - i
       IN  IF segments[k].end <= time_secs THEN k
           ELSE RecentlyLeftForward(segments, time_secs, i - 1)

RECURSIVE RecentlyLeftByStart(_, _, _)
RecentlyLeftByStart(segments, time_secs, i) ==
  IF i = 0 THEN 0
  ELSE IF segments[i].start <= time_secs THEN i
  ELSE RecentlyLeftByStart(segments, time_secs, i - 1)

RECURSIVE RecentlyLeft(_, _, _)
RecentlyLeft(segments, time_secs, i) ==
  IF i = 0 THEN 0
  ELSE IF segments[i].end <= time_secs THEN i
  ELSE RecentlyLeft(segments, time_secs, i - 1)

ScreenEase(raw_t) ==
  spring_ease(raw_t, SCREEN_SPRING_STIFFNESS, SCREEN_SPRING_DAMPING, SCREEN_SPRING_MASS)

ScreenEaseOut(raw_t) ==
  spring_ease_out(raw_t, SCREEN_SPRING_STIFFNESS, SCREEN_SPRING_DAMPING, SCREEN_SPRING_MASS)

\* evaluate_segments: <<zoom_t, focus_x, focus_y>>
evaluate_segments(segments, time_secs, cursor_x, cursor_y) ==
  LET cur == CurrentSegment(segments, time_secs, 1)
      prev == IF cur > 0 THEN cur - 1
              ELSE RecentlyLeft(segments, time_secs, Len(segments))
  IN  IF cur = 0 /\ prev > 0
      THEN \* zooming out from the previous segment
           LET elapsed == time_secs - segments[prev].end
           IN  IF elapsed >= ZOOM_DURATION THEN <<0, FP \div 2, FP \div 2>>
               ELSE <<FP - ScreenEaseOut(DivFP(elapsed, ZOOM_DURATION)), cursor_x, cursor_y>>
      ELSE IF cur > 0 /\ prev = 0
      THEN \* zooming into the current segment (no previous)
           LET elapsed == time_secs - segments[cur].start
           IN  <<ScreenEase(Min2(DivFP(elapsed, ZOOM_DURATION), FP)), cursor_x, cursor_y>>
      ELSE IF cur > 0 /\ prev > 0
      THEN \* transitioning between segments
           LET elapsed == time_secs - segments[cur].start
               ease_t == ScreenEase(Min2(DivFP(elapsed, ZOOM_DURATION), FP))
               gap == segments[cur].start - segments[prev].end
           IN  IF gap = 0 THEN <<FP, cursor_x, cursor_y>>
               ELSE IF gap < ZOOM_DURATION
               THEN LET min_zoom == FP - ScreenEaseOut(DivFP(gap, ZOOM_DURATION))
                    IN  <<MulFP(min_zoom, FP - ease_t) + ease_t, cursor_x, cursor_y>>
               ELSE <<ease_t, cursor_x, cursor_y>>
      ELSE <<0, FP \div 2, FP \div 2>>

\* evaluate_zoom_at_time: the ZoomState returned
evaluate_zoom_at_time(segments, time_ms, cursor_x, cursor_y) ==
  IF segments = <<>> THEN [x |-> FP \div 2, y |-> FP \div 2, scale |-> FP]
  ELSE
    LET e == evaluate_segments(segments, SecsOfMs(time_ms), cursor_x, cursor_y)
        zoom_t == e[1]
        amount == FP + MulFP(AUTO_ZOOM_AMOUNT - FP, zoom_t)
        half == DivFP(FP \div 2, amount)
    IN  IF zoom_t <= Limb THEN [x |-> FP \div 2, y |-> FP \div 2, scale |-> FP]
        ELSE [x |-> Clamp(e[2], half, FP - half),
              y |-> Clamp(e[3], half, FP - half),
              scale |-> amount]

\* ------------------------------------------------------------------------
\* commands/zoom.rs: cursor interpolation, evaluate_frame, precompute_frames
\* ------------------------------------------------------------------------

\* is interior sample i a shake: neighbours within the window, direction
\* reversed and the mean step tiny
IsShake(moves, i) ==
  LET prev == moves[i - 1]
      curr == moves[i]
      next == moves[i + 1]
      dx1 == curr.x - prev.x
      dy1 == curr.y - prev.y
      dx2 == next.x - curr.x
      dy2 == next.y - curr.y
      dot == MulFP(dx1, dx2) + MulFP(dy1, dy2)
      dist == (Hypot(dx1, dy1) + Hypot(dx2, dy2)) \div 2
  IN  /\ next.time - prev.time <= SHAKE_WINDOW_MS
      /\ dot < 0
      /\ dist < SHAKE_THRESHOLD

\* filter_shake, and the same filter inlined in precompute_frames
filter_shake(moves) ==
  IF Len(moves) < 3 THEN moves
  ELSE LET keep == {1, Len(moves)} \cup {i \in 2..(Len(moves) - 1) : ~IsShake(moves, i)}
           F[i \in 0..Len(moves)] ==
             IF i = 0 THEN <<>>
             ELSE IF i \in keep THEN Append(F[i - 1], moves[i]) ELSE F[i - 1]
       IN  F[Len(moves)]

\* the replay loop of interpolate_cursor_position from move i on;
\* st = [sim, last_time, i, broke]
RECURSIVE ReplayTo(_, _, _)
ReplayTo(st, filtered, time_ms) ==
  IF st.broke \/ st.i > Len(filtered) THEN st
  ELSE LET m == filtered[st.i]
           aimed == set_target(st.sim, <<m.x, m.y>>)
       IN  IF m.time > time_ms
           THEN \* a move in the future: aim at it and run the partial step
                [sim |-> run(aimed, time_ms - st.last_time),
                 last_time |-> time_ms, i |-> st.i, broke |-> TRUE]
           ELSE TheOne({ReplayTo(next, filtered, time_ms) :
                          next \in {[sim |-> IF m.time - st.last_time > 0
                                             THEN run(aimed, m.time - st.last_time)
                                             ELSE aimed,
                                     last_time |-> m.time, i |-> st.i + 1,
                                     broke |-> FALSE]}})

\* a simulation at rest at the first filtered move (0.5, 0.5 without moves)
CursorSimAt(filtered) ==
  LET p == IF filtered # <<>> THEN <<filtered[1].x, filtered[1].y>> ELSE <<FP \div 2, FP \div 2>>
  IN  set_target(set_velocity(set_position(SpringNew(cursor_default), p), <<0, 0>>), p)

\* interpolate_cursor_position: <<x, y, vx, vy>>
interpolate_cursor_position(moves, time_ms) ==
  IF moves = <<>> THEN <<FP \div 2, FP \div 2, 0, 0>>
  ELSE IF time_ms <= moves[1].time THEN <<moves[1].x, moves[1].y, 0, 0>>
  ELSE IF time_ms >= moves[Len(moves)].time
       THEN <<moves[Len(moves)].x, moves[Len(moves)].y, 0, 0>>
  ELSE
    TheOne({<<Clamp(sim.position[1], 0, FP), Clamp(sim.position[2], 0, FP),
              sim.velocity[1], sim.velocity[2]>> :
              sim \in {TheOne({IF st.last_time < time_ms
                               THEN run(st.sim, time_ms - st.last_time) ELSE st.sim :
                               st \in {TheOne({ReplayTo([sim |-> CursorSimAt(filtered),
                                                         last_time |-> 0, i |-> 1,
                                                         broke |-> FALSE],
                                                        filtered, time_ms) :
                                                 filtered \in {filter_shake(moves)}})}})}})

\* smoothstep progress of one click at time_ms, 0 outside its visual window
ClickProgress(click, time_ms) ==
  LET elapsed == time_ms - click.time
      t == (elapsed * FP) \div CLICK_VISUAL_DURATION_MS
  IN  IF click.down /\ elapsed >= 0 /\ elapsed < CLICK_VISUAL_DURATION_MS
      THEN MulFP(MulFP(t, t), 3 * FP - 2 * t)
      ELSE 0

\* compute_click_progress: the best progress over all clicks
RECURSIVE compute_click_progress(_, _)
compute_click_progress(clicks, time_ms) ==
  IF clicks = <<>> THEN 0
  ELSE Max2(ClickProgress(clicks[Len(clicks)], time_ms),
            compute_click_progress(SubSeq(clicks, 1, Len(clicks) - 1), time_ms))

\* compute_opacity: 1.0 while recently active, then a linear fade to 0
compute_opacity(moves, time_ms) ==
  IF moves = <<>> THEN 0
  ELSE
    LET k == RFindMove(moves, time_ms, Len(moves))
        last_move_time == IF k = 0 THEN 0 ELSE moves[k].time
        idle_time == time_ms - last_move_time
    IN  IF idle_time <= CURSOR_IDLE_DELAY_MS THEN FP
        ELSE IF idle_time - CURSOR_IDLE_DELAY_MS >= CURSOR_FADE_OUT_MS THEN 0
        ELSE FP - ((idle_time - CURSOR_IDLE_DELAY_MS) * FP) \div CURSOR_FADE_OUT_MS

\* motion magnitude: min(|velocity|, 1.0)
Motion(vx, vy) == Min2(Hypot(vx, vy), FP)

\* interpolate_cursor_at_time: the CursorState returned
interpolate_cursor_at_time(moves, clicks, time_ms) ==
  IF moves = <<>>
  THEN [x |-> FP \div 2, y |-> FP \div 2, opacity |-> 0, click_progress |-> 0, motion |-> 0]
  ELSE TheOne({[x |-> p[1], y |-> p[2],
                opacity |-> compute_opacity(moves, time_ms),
                click_progress |-> compute_click_progress(clicks, time_ms),
                motion |-> Motion(p[3], p[4])] :
                p \in {interpolate_cursor_position(moves, time_ms)}})

\* evaluate_frame: cursor first, then the zoom focused on it
evaluate_frame(segments, moves, clicks, time_ms) ==
  TheOne({[zoom |-> evaluate_zoom_at_time(segments, time_ms, cursor.x, cursor.y),
           cursor |-> cursor] :
           cursor \in {interpolate_cursor_at_time(moves, clicks, time_ms)}})

\* floor(log2(n / dn)) for whole n, dn > 0: the binary exponent of n / dn
FloorLog2(n, dn) ==
  IF n >= dn
  THEN CHOOSE E \in 0..30 : dn * (2 ^ E) <= n /\ n \div 2 < dn * (2 ^ E)
  ELSE 0 - (CHOOSE E \in 1..30 : n * (2 ^ E) >= dn /\ n * (2 ^ (E - 1)) < dn)

\* 2^e mod m
RECURSIVE Pow2Mod(_, _)
Pow2Mod(e, m) == IF e = 0 THEN 1 % m ELSE (2 * Pow2Mod(e - 1, m)) % m

\* the f64 quotient duration_ms / 1000.0 is m / 2^e with a 53-bit m,
\* e = 52 - FloorLog2(duration_ms, 1000).  QuotientError is
\* m * 1000 - duration_ms * 2^e: by how much, in units of 1 / (1000 * 2^e),
\* round-to-nearest put the quotient above (> 0) or below (< 0) the exact
\* value (no ties arise for e > 3)
QuotientError(duration_ms) ==
  LET e == 52 - FloorLog2(duration_ms, 1000)
      rem == ((duration_ms % 1000) * Pow2Mod(e, 1000)) % 1000
  IN  IF rem < 500 THEN 0 - rem ELSE 1000 - rem

\* does the f64 product (duration_ms / 1000.0) * fps round to a value above
\* the whole number k it equals exactly?  It does when the quotient's error
\* times fps exceeds half an ulp of k (a tie rounds to k, whose mantissa is
\* even)
ProductRoundsAbove(duration_ms, fps, k) ==
  LET err == QuotientError(duration_ms)
      sh == FloorLog2(k, 1) - FloorLog2(duration_ms, 1000) - 1
  IN  /\ err > 0
      /\ IF sh >= 0 THEN fps * err > 1000 * (2 ^ sh) ELSE 2 * fps * err > 1000

\* (duration_ms / 1000.0 * fps).ceil() as usize, in f64, for whole
\* duration_ms and fps: rounding can only matter when the exact product is
\* a whole number (otherwise it is at least 1/1000 away from one)
FrameCount(duration_ms, fps) ==
  IF duration_ms <= 0 \/ fps <= 0 THEN 0
  ELSE IF (duration_ms * fps) % 1000 # 0 THEN (duration_ms * fps) \div 1000 + 1
  ELSE IF ProductRoundsAbove(duration_ms, fps, (duration_ms * fps) \div 1000)
       THEN (duration_ms * fps) \div 1000 + 1
       ELSE (duration_ms * fps) \div 1000

\* frame as f64 * (1000.0 / fps), in whole milliseconds (exact for the frame
\* rates that divide 1000)
FrameTimeMs(frame, fps) == (frame * 1000) \div fps

\* the while loop of precompute_frames: consume the moves at or before
\* time_ms; st = [sim, move_idx, last_sim_time] (move_idx counts from 1)
RECURSIVE AdvanceMoves(_, _, _)
AdvanceMoves(st, filtered_moves, time_ms) ==
  IF st.move_idx > Len(filtered_moves) THEN st
  ELSE IF filtered_moves[st.move_idx].time > time_ms THEN st
  ELSE LET m == filtered_moves[st.move_idx]
           aimed == set_target(st.sim, <<m.x, m.y>>)
       IN  TheOne({AdvanceMoves(next, filtered_moves, time_ms) :
                     next \in {[sim |-> IF m.time - st.last_sim_time > 0
                                        THEN run(aimed, m.time - st.last_sim_time)
                                        ELSE aimed,
                                move_idx |-> st.move_idx + 1,
                                last_sim_time |-> m.time]}})

\* the CursorState and ZoomState of a frame, from the simulation at its time
FrameOf(sim, time_ms, segments, filtered_moves, clicks) ==
  TheOne({[zoom |-> evaluate_zoom_at_time(segments, time_ms, cursor.x, cursor.y),
           cursor |-> cursor] :
           cursor \in {[x |-> Clamp(sim.position[1], 0, FP),
                        y |-> Clamp(sim.position[2], 0, FP),
                        opacity |-> compute_opacity(filtered_moves, time_ms),
                        click_progress |-> compute_click_progress(clicks, time_ms),
                        motion |-> Motion(sim.velocity[1], sim.velocity[2])]}})

\* run the remaining time up to the frame: the state after it and the frame
RunToFrame(adv, time_ms, segments, filtered_moves, clicks) ==
  LET remaining == time_ms - adv.last_sim_time
  IN  TheOne({[sim |-> sim,
               move_idx |-> adv.move_idx,
               last_sim_time |-> IF remaining > 0 THEN time_ms ELSE adv.last_sim_time,
               frame |-> FrameOf(sim, time_ms, segments, filtered_moves, clicks)] :
               sim \in {IF remaining > 0 THEN run(adv.sim, remaining) ELSE adv.sim}})

\* one iteration of the frame loop
FrameStep(st, frame, segments, filtered_moves, clicks, fps) ==
  TheOne({RunToFrame(adv, FrameTimeMs(frame, fps), segments, filtered_moves, clicks) :
            adv \in {AdvanceMoves(st, filtered_moves, FrameTimeMs(frame, fps))}})

\* the frame loop from `frame` on; st carries the simulation between frames
RECURSIVE FrameLoop(_, _, _, _, _, _, _)
FrameLoop(st, frame, frame_count, segments, filtered_moves, clicks, fps) ==
  IF frame >= frame_count THEN <<>>
  ELSE TheOne({<<step.frame>>
               \o FrameLoop([sim |-> step.sim, move_idx |-> step.move_idx,
                             last_sim_time |-> step.last_sim_time],
                            frame + 1, frame_count, segments, filtered_moves, clicks, fps) :
               step \in {FrameStep(st, frame, segments, filtered_moves, clicks, fps)}})

\* precompute_frames: every frame's state, one simulation run through them all
precompute_frames(segments, moves, clicks, duration_ms, fps) ==
  TheOne({FrameLoop([sim |-> CursorSimAt(filtered_moves), move_idx |-> 1,
                     last_sim_time |-> 0],
                    0, FrameCount(duration_ms, fps), segments, filtered_moves, clicks, fps) :
            filtered_moves \in {filter_shake(moves)}})

\* ------------------------------------------------------------------------
\* rendering/zoom_interpolation.rs
\* ------------------------------------------------------------------------

ZI_ZOOM_DURATION == 1000000
ZI_SCREEN_SPRING_STIFFNESS == 200000000
ZI_SCREEN_SPRING_DAMPING == 40000000
ZI_SCREEN_SPRING_MASS == 2250000

\* ZoomBounds::identity
ZoomBoundsIdentity == [top_left |-> <<0, 0>>, bottom_right |-> <<FP, FP>>]

\* InterpolatedZoom::identity
InterpolatedZoomIdentityActive ==
  [bounds |-> ZoomBoundsIdentity, is_active |-> TRUE, transition_progress |-> 0]

InterpolatedZoomIdentity ==
  [bounds |-> ZoomBoundsIdentity, is_active |-> FALSE, transition_progress |-> 0]

\* index of the first segment with start <= time <= end, 0 if none
RECURSIVE InsideSegment(_, _, _)
InsideSegment(segments, time_secs, i) ==
  IF i > Len(segments) THEN 0
  ELSE IF time_secs >= segments[i].start /\ time_secs <= segments[i].end THEN i
  ELSE InsideSegment(segments, time_secs, i + 1)

\* index of the first segment with end < time < end + ZOOM_DURATION, 0 if none
RECURSIVE LeavingSegment(_, _, _)
LeavingSegment(segments, time_secs, i) ==
  IF i > Len(segments) THEN 0
  ELSE IF time_secs > segments[i].end /\ time_secs < segments[i].end + ZI_ZOOM_DURATION THEN i
  ELSE LeavingSegment(segments, time_secs, i + 1)

\* SegmentsCursor::at_time; segment and prev_segment are indices, 0 for None
at_time(segments, time_secs) ==
  LET in == InsideSegment(segments, time_secs, 1)
      out == LeavingSegment(segments, time_secs, 1)
      n == Len(segments)
  IN  IF in > 0
      THEN [segment |-> in,
            time_in_segment |-> Min2(DivFP(time_secs - segments[in].start, ZI_ZOOM_DURATION), FP),
            time_since_end |-> 0,
            prev_segment |-> in - 1]
      ELSE IF out > 0
      THEN [segment |-> IF out < n THEN out + 1 ELSE 0,
            time_in_segment |-> 0,
            time_since_end |-> time_secs - segments[out].end,
            prev_segment |-> out]
      ELSE [segment |-> 0,
            time_in_segment |-> 0,
            time_since_end |-> 0,
            prev_segment |-> IF n > 0 /\ time_secs > segments[n].end THEN n ELSE 0]

\* the x or y half of cursor-visibility enforcement
EnsureVisible(c, cursor, half_size, margin) ==
  LET lo == c - half_size + margin
      hi == c + half_size - margin
  IN  IF cursor < lo THEN c - (lo - cursor)
      ELSE IF cursor > hi THEN c + (cursor - hi)
      ELSE c

\* edge snapping that pushes away from the low edge only
EdgeSnapLowOnly(c, half_size, snap) ==
  IF c - half_size < snap THEN half_size + snap ELSE c

\* the x or y half of edge snapping
EdgeSnap(c, half_size, snap) ==
  LET c1 == IF c - half_size < snap THEN half_size + snap ELSE c
  IN  IF c1 + half_size > FP - snap THEN FP - half_size - snap ELSE c1

\* one axis of compute_zoom_bounds: the centre before the final clamp
AxisCentre(focus, amount, edge_snap, actual_cursor, axis) ==
  LET half_size == DivFP(FP \div 2, amount)
      c0 == focus[axis]
      c1 == IF actual_cursor # <<>>
            THEN EnsureVisible(c0, actual_cursor[axis], half_size, MulFP(half_size, (15 * FP) \div 100))
            ELSE c0
  IN  IF edge_snap > 0 THEN EdgeSnap(c1, half_size, MulFP(edge_snap, half_size)) ELSE c1

\* compute_zoom_bounds; actual_cursor is <<>> for None
ComputeZoomBoundsUnclamped(focus, amount, edge_snap, actual_cursor) ==
  IF amount <= FP + Limb THEN ZoomBoundsIdentity
  ELSE
    LET half_size == DivFP(FP \div 2, amount)
        cx == AxisCentre(focus, amount, edge_snap, actual_cursor, 1)
        cy == AxisCentre(focus, amount, edge_snap, actual_cursor, 2)
    IN  [top_left |-> <<cx - half_size, cy - half_size>>,
         bottom_right |-> <<cx + half_size, cy + half_size>>]

compute_zoom_bounds(focus, amount, edge_snap, actual_cursor) ==
  IF amount <= FP + Limb THEN ZoomBoundsIdentity
  ELSE
    LET half_size == DivFP(FP \div 2, amount)
        cx == Clamp(AxisCentre(focus, amount, edge_snap, actual_cursor, 1),
                    half_size, FP - half_size)
        cy == Clamp(AxisCentre(focus, amount, edge_snap, actual_cursor, 2),
                    half_size, FP - half_size)
    IN  [top_left |-> <<cx - half_size, cy - half_size>>,
         bottom_right |-> <<cx + half_size, cy + half_size>>]

ZiEase(t) ==
  spring_ease(t, ZI_SCREEN_SPRING_STIFFNESS, ZI_SCREEN_SPRING_DAMPING, ZI_SCREEN_SPRING_MASS)

ZiEaseOut(t) ==
  spring_ease_out(t, ZI_SCREEN_SPRING_STIFFNESS, ZI_SCREEN_SPRING_DAMPING, ZI_SCREEN_SPRING_MASS)

\* interpolate_zoom; focus is what focus_interpolator.interpolate(time_secs)
\* returns, actual_cursor is <<>> for None
interpolate_zoom(segments, time_secs, focus, actual_cursor) ==
  IF segments = <<>> THEN InterpolatedZoomIdentity
  ELSE
    LET cursor == at_time(segments, time_secs)
    IN  IF cursor.segment > 0
        THEN \* inside a zoom segment: easing in
             LET seg == segments[cursor.segment]
                 ease_t == IF seg.instant_animation
                           THEN instant_ease(cursor.time_in_segment)
                           ELSE ZiEase(cursor.time_in_segment)
                 amount == FP + MulFP(seg.amount - FP, ease_t)
             IN  [bounds |-> compute_zoom_bounds(focus, amount, seg.edge_snap_ratio, actual_cursor),
                  is_active |-> TRUE,
                  transition_progress |-> ease_t]
        ELSE IF /\ cursor.prev_segment > 0
                /\ cursor.time_since_end > 0
                /\ cursor.time_since_end < ZI_ZOOM_DURATION
        THEN \* zooming out from the previous segment
             LET prev == segments[cursor.prev_segment]
                 out_t == DivFP(cursor.time_since_end, ZI_ZOOM_DURATION)
                 ease_t == IF prev.instant_animation THEN instant_ease(out_t)
                           ELSE ZiEaseOut(out_t)
                 amount == prev.amount + MulFP(FP - prev.amount, ease_t)
             IN  [bounds |-> compute_zoom_bounds(focus, amount, prev.edge_snap_ratio, actual_cursor),
                  is_active |-> TRUE,
                  transition_progress |-> FP - ease_t]
        ELSE InterpolatedZoomIdentity

\* ------------------------------------------------------------------------
\* Bounded inputs
\* ------------------------------------------------------------------------

MaxClicks == 2
MaxMoves == 1

\* all sequences over S of length at most n
RECURSIVE SeqsUpTo(_, _)
SeqsUpTo(S, n) ==
  IF n = 0 THEN {<<>>}
  ELSE LET shorter == SeqsUpTo(S, n - 1)
       IN  shorter \cup {Append(q, e) : q \in {r \in shorter : Len(r) = n - 1}, e \in S}

IsSortedByTime(q) == \A i \in 1..(Len(q) - 1) : q[i].time <= q[i + 1].time

\* click times (ms): gaps of 700 ms (one group), exactly 2500 ms (the group
\* threshold), 3200 ms (merge gap exactly 0.8 s), 3300 ms and more (apart)
ClickTimes == {0, 700, 2500, 3200, 3300, 6000}
ClickPoints == {<<FP \div 2, FP \div 2>>, <<(9 * FP) \div 10, (9 * FP) \div 10>>}

ClickEvents ==
  {[time |-> t, x |-> p[1], y |-> p[2], down |-> TRUE] : t \in ClickTimes, p \in ClickPoints}
  \cup {[time |-> 700, x |-> FP \div 2, y |-> FP \div 2, down |-> FALSE]}

MoveEvents ==
  {[time |-> 500, x |-> (9 * FP) \div 10, y |-> (9 * FP) \div 10],
   [time |-> 3000, x |-> FP \div 2, y |-> (56 * FP) \div 100]}

ClickLists == SeqsUpTo(ClickEvents, MaxClicks)
MoveLists == {q \in SeqsUpTo(MoveEvents, MaxMoves) : IsSortedByTime(q)}

\* recording lengths (ms): none, shorter than the stop padding, and longer
Durations == {0 - 1000, 0, 400, 3000, 5500, 9000}

\* ------------------------------------------------------------------------
\* SpecGen: one call of generate_zoom_segments
\* ------------------------------------------------------------------------

InitGen ==
  /\ call \in {[fn |-> "generate_zoom_segments", clicks |-> c, moves |-> m, duration_ms |-> d] :
                  c \in ClickLists, m \in MoveLists, d \in Durations}
  /\ result = <<>>
  /\ done = FALSE
  /\ compositor = NoCompositor
  /\ spring = NoSpring
  /\ tracker = NoTracker
  /\ encoder = NoEncoder
  /\ recorder = NoRecorder
  /\ listener = NoListener

GenerateZoomSegments ==
  /\ ~done
  /\ call.fn = "generate_zoom_segments"
  /\ result' = generate_zoom_segments(call.clicks, call.moves, call.duration_ms)
  /\ done' = TRUE
  /\ UNCHANGED <<call, compositor, spring, tracker, encoder, recorder, listener>>

NextGen == GenerateZoomSegments

SpecGen == InitGen /\ [][NextGen]_vars

GenReturned == done /\ call.fn = "generate_zoom_segments"

\* ------------------------------------------------------------------------
\* SpecZoom: one call of evaluate_zoom_at_time, interpolate_zoom or
\* compute_zoom_bounds
\* ------------------------------------------------------------------------

MaxSegments == 2
MaxSegTick == 5
MaxQueryTick == 16

\* segment boundaries every half second, query times every quarter second
SegBoundaries == {SecsOfMs(k * 500) : k \in 0..MaxSegTick}
QueryTimesMs == {k * 250 : k \in 0..MaxQueryTick}
SegAmounts == {AUTO_ZOOM_AMOUNT, 2 * FP}

SegmentChoices ==
  {[start |-> a, end |-> b, amount |-> m] :
     a \in SegBoundaries, b \in SegBoundaries, m \in SegAmounts}

\* the ZoomSegment invariant, and the order the evaluators assume
ValidSegment(seg) == seg.end > seg.start
SortedDisjoint(segments) ==
  \A i \in 1..(Len(segments) - 1) : segments[i].end <= segments[i + 1].start

SegmentLists ==
  {q \in SeqsUpTo({g \in SegmentChoices : ValidSegment(g)}, MaxSegments) : SortedDisjoint(q)}

\* a zoom.rs segment list as zoom_interpolation.rs segments of one style
Styled(q, instant, snap) ==
  [i \in 1..Len(q) |->
     [start |-> q[i].start, end |-> q[i].end, amount |-> q[i].amount, mode |-> "Auto",
      instant_animation |-> instant, edge_snap_ratio |-> snap]]

StyledSegmentLists ==
  {Styled(q, FALSE, 0) : q \in SegmentLists}
  \cup {Styled(q, TRUE, FP \div 5) : q \in SegmentLists}

CursorPoints == {<<FP \div 2, FP \div 2>>, <<FP \div 20, (95 * FP) \div 100>>}

UnitCoords == {0, FP \div 10, FP \div 2, FP}
FocusCoords == {0 - FP \div 10, FP \div 10, FP \div 2, FP}
AmountChoices == {FP, FP + Limb, FP + Limb + 100, (3 * FP) \div 2, AUTO_ZOOM_AMOUNT, 3 * FP}
EdgeSnapChoices == {0, FP \div 5, FP \div 2, FP}

EvalCalls ==
  {[fn |-> "evaluate_zoom_at_time", segments |-> q, time_ms |-> t,
    cursor_x |-> c[1], cursor_y |-> c[2]] :
     q \in SegmentLists, t \in QueryTimesMs, c \in CursorPoints}

InterpCalls ==
  {[fn |-> "interpolate_zoom", segments |-> q, time_secs |-> SecsOfMs(t),
    focus |-> f, actual_cursor |-> c] :
     q \in StyledSegmentLists, t \in QueryTimesMs,
     f \in {<<FP \div 20, (95 * FP) \div 100>>},
     c \in {<<>>, <<(9 * FP) \div 10, FP \div 10>>}}

BoundsCalls ==
  {[fn |-> "compute_zoom_bounds", focus |-> <<fx, fy>>, amount |-> a, edge_snap |-> s,
    actual_cursor |-> c] :
     fx \in FocusCoords, fy \in FocusCoords, a \in AmountChoices, s \in EdgeSnapChoices,
     c \in {<<>>} \cup (UnitCoords \X {FP \div 10, (4 * FP) \div 5})}

InitZoom ==
  /\ call \in EvalCalls \cup InterpCalls \cup BoundsCalls
  /\ result = <<>>
  /\ done = FALSE
  /\ compositor = NoCompositor
  /\ spring = NoSpring
  /\ tracker = NoTracker
  /\ encoder = NoEncoder
  /\ recorder = NoRecorder
  /\ listener = NoListener

EvaluateZoomAtTime ==
  /\ ~done
  /\ call.fn = "evaluate_zoom_at_time"
  /\ result' = evaluate_zoom_at_time(call.segments, call.time_ms, call.cursor_x, call.cursor_y)
  /\ done' = TRUE
  /\ UNCHANGED <<call, compositor, spring, tracker, encoder, recorder, listener>>

InterpolateZoom ==
  /\ ~done
  /\ call.fn = "interpolate_zoom"
  /\ result' = interpolate_zoom(call.segments, call.time_secs, call.focus, call.actual_cursor)
  /\ done' = TRUE
  /\ UNCHANGED <<call, compositor, spring, tracker, encoder, recorder, listener>>

ComputeZoomBounds ==
  /\ ~done
  /\ call.fn = "compute_zoom_bounds"
  /\ result' = compute_zoom_bounds(call.focus, call.amount, call.edge_snap, call.actual_cursor)
  /\ done' = TRUE
  /\ UNCHANGED <<call, compositor, spring, tracker, encoder, recorder, listener>>

NextZoom == EvaluateZoomAtTime \/ InterpolateZoom \/ ComputeZoomBounds

SpecZoom == InitZoom /\ [][NextZoom]_vars

EvalReturned == done /\ call.fn = "evaluate_zoom_at_time"
InterpReturned == done /\ call.fn = "interpolate_zoom"
BoundsReturned == done /\ call.fn = "compute_zoom_bounds"

\* ------------------------------------------------------------------------
\* Properties of generate_zoom_segments (under SpecGen)
\* ------------------------------------------------------------------------

GenLimit == ActivityEndLimit(SecsOfMs(call.duration_ms))
GenRetained == DownClicks(call.clicks, GenLimit)
GenPositions == ClickPositions(GenRetained, call.moves)

\* the permutations of 1..n
Perms(n) == {f \in [1..n -> 1..n] : \A i, j \in 1..n : f[i] = f[j] => i = j}

\* C2: the returned segments are sorted by start, each has end > start, and
\* each next one starts more than the merge threshold after the previous
\* one's end, so no two overlap.
C2_SortedDisjoint ==
  GenReturned =>
    /\ \A i \in 1..Len(result) : result[i].end > result[i].start
    /\ \A i \in 1..(Len(result) - 1) :
         /\ result[i].start <= result[i + 1].start
         /\ result[i + 1].start > result[i].end + MERGE_GAP_THRESHOLD
    /\ \A i, j \in 1..Len(result) :
         i < j => result[i].end < result[j].start

C2_Witness == GenReturned /\ Len(result) >= 2

C9_Pair(i, j) ==
  /\ i # j
  /\ GenPositions[i][2] = GenPositions[j][2]
  /\ GenPositions[i][3] = GenPositions[j][3]
  /\ Abs(GenPositions[i][1] - GenPositions[j][1]) < CLICK_GROUP_TIME_THRESHOLD_SECS

C9_Covering(t) == {k \in 1..Len(result) : result[k].start <= t /\ t <= result[k].end}

C9_CloseClicksOneSegment ==
  GenReturned =>
    \A i, j \in 1..Len(GenRetained) :
      C9_Pair(i, j) =>
        LET first == Min2(GenPositions[i][1], GenPositions[j][1])
            last == Max2(GenPositions[i][1], GenPositions[j][1])
        IN  /\ Cardinality(C9_Covering(first) \cup C9_Covering(last)) <= 1
            /\ last + CLICK_POST_PADDING <= GenLimit =>
                 /\ Cardinality(C9_Covering(first) \cap C9_Covering(last)) = 1
                 /\ Len(GenRetained) = 2 =>
                      /\ Len(result) = 1
                      /\ result[1].start = Max2(first - CLICK_PRE_PADDING, 0)
                      /\ result[1].end = last + CLICK_POST_PADDING
                      /\ first > 0 => result[1].start < first

C9_Witness ==
  /\ GenReturned
  /\ Len(GenRetained) = 2
  /\ C9_Pair(1, 2)
  /\ GenPositions[1][1] = 700 * Limb
  /\ GenPositions[2][1] = 2500 * Limb
  /\ GenPositions[2][1] + CLICK_POST_PADDING <= GenLimit
  /\ Len(result) = 1

\* C10: every returned segment has start >= 0, end <= the activity limit,
\* length >= 1.2 s and amount 1.8; a recording of no length or without a
\* retained down-click gives no segment.
C10_SegmentBounds ==
  GenReturned =>
    /\ \A i \in 1..Len(result) :
         /\ result[i].start >= 0
         /\ result[i].end <= GenLimit
         /\ result[i].end - result[i].start >= MIN_SEGMENT_DURATION
         /\ result[i].amount = AUTO_ZOOM_AMOUNT
    /\ (call.duration_ms <= 0 \/ GenRetained = <<>>) => result = <<>>

C10_Witness ==
  /\ GenReturned
  /\ Len(result) >= 1
  /\ result[Len(result)].end = GenLimit
  /\ result[1].start = 0

\* the times in seconds of the retained down-clicks, in input order
RetainedTimes(clicks, duration_ms) ==
  LET retained == DownClicks(clicks, ActivityEndLimit(SecsOfMs(duration_ms)))
  IN  [i \in 1..Len(retained) |-> SecsOfMs(retained[i].time)]

\* every retained click padded on its own and clamped to the recording
PaddedClicks(times, activity_end_limit) ==
  [i \in 1..Len(times) |->
     <<Max2(times[i] - CLICK_PRE_PADDING, 0),
       Min2(times[i] + CLICK_POST_PADDING, activity_end_limit)>>]

\* the padded clicks sorted by start, merged across gaps of at most
\* MERGE_GAP_THRESHOLD, the too-short ones dropped
SegmentsFromTimes(times, duration_ms) ==
  LET padded == PaddedClicks(times, ActivityEndLimit(SecsOfMs(duration_ms)))
  IN  ToSegments(MergeIntervals(SortByStart(padded, Len(padded)), 1, <<>>), 1)

\* the groups the call has formed
GenGroupsFormed ==
  GroupClicks(ClickPositions(GenRetained, call.moves), 1, <<>>)

\* C30: the segments returned by generate_zoom_segments depend only on
\* the times of the retained down-clicks and on the duration: the result
\* is the one obtained by padding every retained click on its own (0.4 s
\* before, 2.0 s after, clamped), sorting, merging gaps of at most 0.8 s
\* and dropping intervals shorter than 1.2 s; click coordinates, the
\* moves, the spatial threshold and up-clicks never change it.
C30_TimesOnly ==
  GenReturned =>
    result = SegmentsFromTimes(RetainedTimes(call.clicks, call.duration_ms),
                               call.duration_ms)

\* two retained clicks in two groups (too far apart on screen to be
\* grouped, their positions taken from a move) end in one segment
C30_Witness ==
  /\ GenReturned
  /\ call.moves # <<>>
  /\ Len(GenRetained) = 2
  /\ Len(GenGroupsFormed) = 2
  /\ Len(result) = 1

\* ------------------------------------------------------------------------
\* Properties of the zoom evaluators (under SpecZoom)
\* ------------------------------------------------------------------------

IdentityZoomState == [x |-> FP \div 2, y |-> FP \div 2, scale |-> FP]

\* C3: never start zoomed: at every query time at or before the first
\* segment's start evaluate_zoom_at_time returns scale exactly 1.0 and
\* centre exactly (0.5, 0.5), whatever the cursor position.
C3_NeverStartZoomed ==
  (EvalReturned /\ call.segments # <<>>
     /\ SecsOfMs(call.time_ms) <= call.segments[1].start)
  => result = IdentityZoomState

C3_Witness ==
  /\ EvalReturned
  /\ call.segments # <<>>
  /\ call.segments[1].start > 0
  /\ SecsOfMs(call.time_ms) = call.segments[1].start
  /\ call.cursor_x # FP \div 2
  /\ result = IdentityZoomState

\* C4: with an empty segment list both evaluators return the identity
\* camera (scale 1.0, centre (0.5, 0.5), not active) for every query time
\* and every cursor or focus.
C4_EmptyIsIdentity ==
  /\ (EvalReturned /\ call.segments = <<>>) => result = IdentityZoomState
  /\ (InterpReturned /\ call.segments = <<>>) =>
       /\ result.bounds.top_left = <<0, 0>>
       /\ result.bounds.bottom_right = <<FP, FP>>
       /\ ~result.is_active

C4_Witness ==
  /\ InterpReturned
  /\ call.segments = <<>>
  /\ call.time_secs > 0
  /\ call.actual_cursor # <<>>
  /\ result = InterpolatedZoomIdentity

\* C5: the viewport never leaves the unit square: compute_zoom_bounds
\* returns 0 <= top_left <= bottom_right <= 1 on both axes, and the centre
\* evaluate_zoom_at_time returns lies in [half, 1 - half], half = 0.5/scale,
\* with half <= 1 - half.
C5_ViewportInUnitSquare ==
  /\ BoundsReturned =>
       \A axis \in {1, 2} :
         /\ 0 <= result.top_left[axis]
         /\ result.top_left[axis] <= result.bottom_right[axis]
         /\ result.bottom_right[axis] <= FP
  /\ EvalReturned =>
       LET half == DivFP(FP \div 2, result.scale)
       IN  /\ half <= FP - half
           /\ half <= result.x /\ result.x <= FP - half
           /\ half <= result.y /\ result.y <= FP - half

C5_Witness ==
  /\ BoundsReturned
  /\ call.amount > FP + Limb
  /\ call.focus[1] < 0
  /\ call.actual_cursor # <<>>
  /\ call.edge_snap > 0
  /\ result.top_left[1] = 0

\* C6: whenever an actual cursor position in the unit square is supplied
\* and the amount is > 1, the bounds compute_zoom_bounds returns contain
\* that position on both axes, for every focus and edge-snap ratio.
C6_CursorVisible ==
  (BoundsReturned /\ call.actual_cursor # <<>> /\ call.amount > FP) =>
    \A axis \in {1, 2} :
      /\ result.top_left[axis] <= call.actual_cursor[axis]
      /\ call.actual_cursor[axis] <= result.bottom_right[axis]

\* C7: zoom-out always completes: from last.end + ZOOM_DURATION on the
\* camera is exactly identity; strictly between last.end and that time the
\* zoom level is 1 - spring_ease_out((t - last.end)/ZOOM_DURATION), and the
\* camera is still zoomed (scale > 1) while that level exceeds 0.001.
C7_ZoomOutCompletes ==
  (EvalReturned /\ call.segments # <<>>) =>
    LET last == call.segments[Len(call.segments)]
        t == SecsOfMs(call.time_ms)
        level == FP - ScreenEaseOut(DivFP(t - last.end, ZOOM_DURATION))
    IN  /\ t >= last.end + ZOOM_DURATION => result = IdentityZoomState
        /\ (last.end < t /\ t < last.end + ZOOM_DURATION) =>
             /\ level > Limb =>
                  /\ result.scale > FP
                  /\ result.scale = FP + MulFP(AUTO_ZOOM_AMOUNT - FP, level)
             /\ level <= Limb => result = IdentityZoomState

C7_Witness ==
  /\ EvalReturned
  /\ Len(call.segments) = 2
  /\ SecsOfMs(call.time_ms) = call.segments[2].end + ZOOM_DURATION \div 2
  /\ result.scale > FP
  /\ result.scale < AUTO_ZOOM_AMOUNT


\* the segments of the call that contain the queried time t and began at
\* least ZOOM_DURATION before it
FullyZoomedSegments(t) ==
  {i \in 1..Len(call.segments) :
     /\ call.segments[i].start < t
     /\ t <= call.segments[i].end
     /\ t - call.segments[i].start >= ZOOM_DURATION}

\* C18: inside a segment the amount goes from 1 to the segment's own
\* amount, scale = 1 + (segment.amount - 1) * ease, so once t - start >=
\* ZOOM_DURATION the camera scale either evaluator returns equals
\* segment.amount.
C18_ScaleIsSegmentAmount ==
  /\ EvalReturned =>
       \A i \in FullyZoomedSegments(SecsOfMs(call.time_ms)) :
         result.scale = call.segments[i].amount
  /\ InterpReturned =>
       \A i \in FullyZoomedSegments(call.time_secs) :
         /\ result.transition_progress = FP
         /\ \A axis \in {1, 2} :
              result.bounds.bottom_right[axis] - result.bounds.top_left[axis]
                = 2 * DivFP(FP \div 2, call.segments[i].amount)

\* the segment of the call that ended most recently before the queried
\* time t, when t lies inside no segment and less than ZOOM_DURATION after
\* that end
JustLeftSegments(t) ==
  {i \in 1..Len(call.segments) :
     /\ call.segments[i].end < t
     /\ t < call.segments[i].end + ZOOM_DURATION
     /\ \A j \in 1..Len(call.segments) :
          /\ ~(call.segments[j].start <= t /\ t <= call.segments[j].end)
          /\ call.segments[j].end < t => call.segments[j].end <= call.segments[i].end}

\* C19: at every time t with seg.end < t < seg.end + ZOOM_DURATION that
\* lies inside no segment the evaluator is in the zoom-out transition of
\* seg: the amount goes from seg.amount down to 1 by
\* spring_ease_out((t - seg.end) / ZOOM_DURATION), whether or not a later
\* segment exists in the list; the camera does not jump to identity at
\* seg.end.
C19_ZoomOutAfterSegment ==
  /\ EvalReturned =>
       \A i \in JustLeftSegments(SecsOfMs(call.time_ms)) :
         LET seg == call.segments[i]
             ease_t == ScreenEaseOut(DivFP(SecsOfMs(call.time_ms) - seg.end, ZOOM_DURATION))
         IN  FP - ease_t > Limb =>
               result.scale = FP + MulFP(seg.amount - FP, FP - ease_t)
  /\ InterpReturned =>
       \A i \in JustLeftSegments(call.time_secs) :
         LET seg == call.segments[i]
             ease_t == ZiEaseOut(DivFP(call.time_secs - seg.end, ZI_ZOOM_DURATION))
             amount == seg.amount + MulFP(FP - seg.amount, ease_t)
         IN  (~seg.instant_animation /\ amount > FP + Limb) =>
               /\ result.transition_progress = FP - ease_t
               /\ \A axis \in {1, 2} :
                    result.bounds.bottom_right[axis] - result.bounds.top_left[axis]
                      = 2 * DivFP(FP \div 2, amount)

\* the segments of the call that start where the one before ends and
\* contain the queried time t
BackToBackSegments(t) ==
  {i \in 2..Len(call.segments) :
     /\ call.segments[i].start = call.segments[i - 1].end
     /\ call.segments[i].start < t
     /\ t <= call.segments[i].end}

\* C20: back-to-back segments stay fully zoomed: when next.start =
\* prev.end, at every time inside next the zoom level is 1 (the full
\* amount), the zoom-in easing does not restart, only the centre pans.
C20_BackToBackStaysZoomed ==
  /\ EvalReturned =>
       \A i \in BackToBackSegments(SecsOfMs(call.time_ms)) :
         result.scale = AUTO_ZOOM_AMOUNT
  /\ InterpReturned =>
       \A i \in BackToBackSegments(call.time_secs) :
         /\ result.transition_progress = FP
         /\ \A axis \in {1, 2} :
              result.bounds.bottom_right[axis] - result.bounds.top_left[axis]
                = 2 * DivFP(FP \div 2, call.segments[i].amount)

\* a call of compute_zoom_bounds with an edge-snap ratio in (0, 1], an
\* amount above 1 and no cursor
EdgeSnapCall ==
  /\ BoundsReturned
  /\ call.edge_snap > 0 /\ call.edge_snap <= FP
  /\ call.amount > FP
  /\ call.actual_cursor = <<>>

\* the margin edge snapping asks for: ratio * half, half = 0.5/amount
SnapMargin == MulFP(call.edge_snap, DivFP(FP \div 2, call.amount))

\* both margins fit beside the viewport (amount >= 1 + ratio) and the
\* amount is above the 1.001 below which the bounds are the identity
MarginsFit == call.amount > FP + Limb /\ call.amount >= FP + call.edge_snap

\* C21 as stated: for an edge-snap ratio r in (0, 1], amount > 1 and no
\* cursor the bounds keep the margin r * half from the unit-square
\* edges on both axes (top_left >= r*half, bottom_right <= 1 - r*half),
\* and top_left >= 0 in every case.
C21_EdgeSnapMargin ==
  /\ EdgeSnapCall =>
       \A axis \in {1, 2} :
         /\ result.top_left[axis] >= SnapMargin
         /\ result.bottom_right[axis] <= FP - SnapMargin
  /\ BoundsReturned => \A axis \in {1, 2} : result.top_left[axis] >= 0

\* C21 amended: the margin r * half is kept on both axes when it fits,
\* that is when amount > 1.001 and amount >= 1 + r; top_left >= 0 in
\* every case.
C21_EdgeSnapMarginWhenFits ==
  /\ (EdgeSnapCall /\ MarginsFit) =>
       \A axis \in {1, 2} :
         /\ result.top_left[axis] >= SnapMargin
         /\ result.bottom_right[axis] <= FP - SnapMargin
  /\ BoundsReturned => \A axis \in {1, 2} : result.top_left[axis] >= 0

C21_Witness ==
  /\ EdgeSnapCall /\ MarginsFit
  /\ call.focus[1] < DivFP(FP \div 2, call.amount)
  /\ call.focus[2] = FP
  /\ result.top_left[1] = SnapMargin
  /\ result.bottom_right[2] = FP - SnapMargin

\* ------------------------------------------------------------------------
\* SpecFrame: one call of evaluate_frame or precompute_frames
\* ------------------------------------------------------------------------

MaxFrameMoves == 2

FrameMoveTimes == {0, 400, 1000}
FramePoints == {<<FP \div 5, FP \div 5>>, <<(4 * FP) \div 5, (3 * FP) \div 5>>}
FrameMoveEvents == {[time |-> t, x |-> p[1], y |-> p[2]] : t \in FrameMoveTimes, p \in FramePoints}

\* recorded moves: time strictly increasing
FrameMoveLists ==
  {q \in SeqsUpTo(FrameMoveEvents, MaxFrameMoves) :
     \A i \in 1..(Len(q) - 1) : q[i].time < q[i + 1].time}

FrameClickLists ==
  {<<>>, <<[time |-> 250, x |-> FP \div 2, y |-> FP \div 2, down |-> TRUE]>>}

FrameSegmentLists ==
  {<<>>,
   <<[start |-> 0, end |-> 2 * FP, amount |-> AUTO_ZOOM_AMOUNT]>>,
   <<[start |-> FP \div 4, end |-> 2 * FP, amount |-> AUTO_ZOOM_AMOUNT]>>}

\* the longest export modelled, in frames
MaxFrames == 8

FrameDurationsMs == {0, 280, 1000, 1500}
FrameRates == {2, 4, 25}
FrameQueryTimesMs == {0, 250, 500, 750, 1250}

EvaluateFrameCalls ==
  {[fn |-> "evaluate_frame", segments |-> q, moves |-> m, clicks |-> c, time_ms |-> t] :
     q \in FrameSegmentLists, m \in FrameMoveLists, c \in FrameClickLists,
     t \in FrameQueryTimesMs}

PrecomputeCalls ==
  {c \in {[fn |-> "precompute_frames", segments |-> q, moves |-> m, clicks |-> k,
           duration_ms |-> d, fps |-> f] :
            q \in FrameSegmentLists, m \in FrameMoveLists, k \in FrameClickLists,
            d \in FrameDurationsMs, f \in FrameRates} :
     (c.duration_ms * c.fps) \div 1000 < MaxFrames}

InitFrame ==
  /\ call \in EvaluateFrameCalls \cup PrecomputeCalls
  /\ result = <<>>
  /\ done = FALSE
  /\ compositor = NoCompositor
  /\ spring = NoSpring
  /\ tracker = NoTracker
  /\ encoder = NoEncoder
  /\ recorder = NoRecorder
  /\ listener = NoListener

EvaluateFrame ==
  /\ ~done
  /\ call.fn = "evaluate_frame"
  /\ result' = evaluate_frame(call.segments, call.moves, call.clicks, call.time_ms)
  /\ done' = TRUE
  /\ UNCHANGED <<call, compositor, spring, tracker, encoder, recorder, listener>>

PrecomputeFrames ==
  /\ ~done
  /\ call.fn = "precompute_frames"
  /\ result' = precompute_frames(call.segments, call.moves, call.clicks,
                                 call.duration_ms, call.fps)
  /\ done' = TRUE
  /\ UNCHANGED <<call, compositor, spring, tracker, encoder, recorder, listener>>

NextFrame == EvaluateFrame \/ PrecomputeFrames

SpecFrame == InitFrame /\ [][NextFrame]_vars

FrameReturned == done /\ call.fn = "evaluate_frame"
PrecomputeReturned == done /\ call.fn = "precompute_frames"

\* C1: every frame precompute_frames returns equals what evaluate_frame
\* returns for the same inputs at that frame's time, i * 1000 / fps
C1_ExportEqualsLive ==
  PrecomputeReturned =>
    \A i \in 1..Len(result) :
      result[i] = evaluate_frame(call.segments, call.moves, call.clicks,
                                 FrameTimeMs(i - 1, call.fps))

\* C11: for duration_ms >= 0 and fps > 0 precompute_frames returns exactly
\* ceil(duration_ms / 1000 * fps) frames, frame i holds the state at time
\* i * 1000 / fps, and frame 0 has the identity camera (scale 1.0) whenever
\* no segment starts before t = 0.
C11_FrameCount ==
  (PrecomputeReturned /\ call.duration_ms >= 0 /\ call.fps > 0) =>
    /\ Len(result) * 1000 >= call.duration_ms * call.fps
    /\ (Len(result) - 1) * 1000 < call.duration_ms * call.fps
    /\ \A i \in 1..Len(result) :
         /\ result[i].zoom =
              evaluate_zoom_at_time(call.segments, FrameTimeMs(i - 1, call.fps),
                                    result[i].cursor.x, result[i].cursor.y)
         /\ result[i].cursor.click_progress =
              compute_click_progress(call.clicks, FrameTimeMs(i - 1, call.fps))
    /\ (Len(result) >= 1 /\ \A k \in 1..Len(call.segments) : call.segments[k].start >= 0)
         => result[1].zoom.scale = FP

\* ------------------------------------------------------------------------
\* commands/compositor.rs: GpuCompositor output, readback buffers, source
\* texture cache.  A byte of the rendered output texture is the triple
\* <<frame, row, byte in row>> of the source frame it was rendered from; a
\* readback byte the GPU has not written is 0.
\* ------------------------------------------------------------------------

COPY_BYTES_PER_ROW_ALIGNMENT == 256

\* GpuCompositor::padded_bytes_per_row
padded_bytes_per_row(width) ==
  LET unpadded == width * 4
      align == COPY_BYTES_PER_ROW_ALIGNMENT
  IN  ((unpadded + align - 1) \div align) * align

\* GpuCompositor::padded_buffer_size
padded_buffer_size(width, height) == padded_bytes_per_row(width) * height

\* device.create_buffer of the given size: zero-filled
CreateBuffer(size) == [i \in 1..size |-> 0]

\* GpuCompositor::new(width, height). Beside the fields of the struct the
\* record holds what the GPU side knows of them: mapped, whether each
\* readback buffer is mapped for reading; copy_target, the slot the last
\* submitted copy_texture_to_buffer wrote to (<<>> before the first, then
\* <<slot>>);
\* source_texture_size, the dimensions the cached texture was created
\* with; source_texture_serial, which texture object is cached: the serial
\* number of the device.create_texture call that made it, modulo 2
CompositorNew(width, height) ==
  [output_size |-> <<width, height>>,
   readback_buffers |-> <<CreateBuffer(padded_buffer_size(width, height)),
                          CreateBuffer(padded_buffer_size(width, height))>>,
   readback_index |-> 0,
   cached_source_size |-> <<0, 0>>,
   cached_source_texture |-> FALSE,
   mapped |-> <<FALSE, FALSE>>,
   copy_target |-> <<>>,
   source_texture_size |-> <<>>,
   source_texture_serial |-> 0]

\* a cache that creates the texture once and never replaces it
GetSourceTextureOnce(self, w, h) ==
  IF ~self.cached_source_texture
  THEN [self EXCEPT !.cached_source_texture = TRUE, !.cached_source_size = <<w, h>>,
                    !.source_texture_size = <<w, h>>,
                    !.source_texture_serial = (@ + 1) % 2]
  ELSE self

\* GpuCompositor::get_source_texture: (re)create the cached texture only when
\* the dimensions change or none exists
get_source_texture(self, w, h) ==
  IF self.cached_source_size # <<w, h>> \/ ~self.cached_source_texture
  THEN [self EXCEPT !.cached_source_texture = TRUE, !.cached_source_size = <<w, h>>,
                    !.source_texture_size = <<w, h>>,
                    !.source_texture_serial = (@ + 1) % 2]
  ELSE self

\* GpuCompositor::resize_output
resize_output(self, width, height) ==
  IF self.output_size = <<width, height>> THEN self
  ELSE [self EXCEPT
          !.readback_buffers = <<CreateBuffer(padded_buffer_size(width, height)),
                                 CreateBuffer(padded_buffer_size(width, height))>>,
          !.mapped = <<FALSE, FALSE>>,
          !.output_size = <<width, height>>]

\* encoder.copy_texture_to_buffer: row r of the out_w x out_h output texture
\* lands at offset r * padded_bpr; bytes of the buffer outside the copied
\* rows keep their value
CopyTextureToBuffer(buffer, frame, out_w, out_h, padded_bpr) ==
  [i \in 1..Len(buffer) |->
     LET row == (i - 1) \div padded_bpr
         col == (i - 1) % padded_bpr
     IN  IF row < out_h /\ col < out_w * 4 THEN <<frame, row, col>> ELSE buffer[i]]

\* the mapped range returned as it is, padding included
KeepPadding(mapped, out_w, out_h, padded_bpr) == mapped

\* the tightly packed copy of the mapped range
RemovePadding(mapped, out_w, out_h, padded_bpr) ==
  LET unpadded_bpr == out_w * 4
  IN  IF unpadded_bpr = padded_bpr THEN mapped
      ELSE [k \in 1..(unpadded_bpr * out_h) |->
              mapped[((k - 1) \div unpadded_bpr) * padded_bpr
                     + ((k - 1) % unpadded_bpr) + 1]]

\* a readback index that stays on the slot just used
SameReadbackIndex(index) == index

\* the readback index after a call: the other slot
NextReadbackIndex(index) == (index + 1) % 2

\* buffer_slice.map_async(Read) completed, and readback_buffers[idx].unmap()
MapRead(self, idx) == [self EXCEPT !.mapped[idx + 1] = TRUE]
Unmap(self, idx) == [self EXCEPT !.mapped[idx + 1] = FALSE]

\* GpuCompositor::composite_frame on a successful readback: the compositor
\* after the call and the bytes returned
composite_frame(self, frame, source_width, source_height) ==
  LET out_w == self.output_size[1]
      out_h == self.output_size[2]
      with_source == get_source_texture(self, source_width, source_height)
      padded_bpr == padded_bytes_per_row(out_w)
      rb_idx == self.readback_index
      mapped == CopyTextureToBuffer(self.readback_buffers[rb_idx + 1], frame,
                                    out_w, out_h, padded_bpr)
  IN  [self |-> Unmap(MapRead([with_source EXCEPT
                                  !.readback_index = NextReadbackIndex(self.readback_index),
                                  !.copy_target = <<rb_idx>>,
                                  !.readback_buffers[rb_idx + 1] = mapped],
                               rb_idx),
                       rb_idx),
       data |-> RemovePadding(mapped, out_w, out_h, padded_bpr)]

\* ------------------------------------------------------------------------
\* SpecComp: a compositor is created, then frames are composited and the
\* output is resized, in any order
\* ------------------------------------------------------------------------

MaxOutputHeight == 2

OutputWidths == {1, 63, 64, 65}
OutputHeights == 1..MaxOutputHeight
SourceSizes == {<<2, 2>>, <<64, 1>>}
SourceFrames == {"a", "b"}

InitComp ==
  /\ \E w \in OutputWidths, h \in OutputHeights :
       /\ call = [fn |-> "new", width |-> w, height |-> h]
       /\ compositor = CompositorNew(w, h)
  /\ result = <<>>
  /\ done = TRUE
  /\ spring = NoSpring
  /\ tracker = NoTracker
  /\ encoder = NoEncoder
  /\ recorder = NoRecorder
  /\ listener = NoListener

\* composite_frame returns Ok(data)
CompositeFrame ==
  /\ compositor # NoCompositor
  /\ \E f \in SourceFrames, sz \in SourceSizes :
       LET r == composite_frame(compositor, f, sz[1], sz[2])
       IN  /\ call' = [fn |-> "composite_frame", frame |-> f,
                       source_width |-> sz[1], source_height |-> sz[2]]
           /\ compositor' = r.self
           /\ result' = [ok |-> TRUE, data |-> r.data]
  /\ done' = TRUE
  /\ UNCHANGED <<spring, tracker, encoder, recorder, listener>>

\* composite_frame returns Err: the readback channel closed or the mapping
\* failed, after the index moved on and the commands were submitted
CompositeFrameFails ==
  /\ compositor # NoCompositor
  /\ \E f \in SourceFrames, sz \in SourceSizes, copied \in BOOLEAN :
       LET r == composite_frame(compositor, f, sz[1], sz[2])
       IN  /\ call' = [fn |-> "composite_frame", frame |-> f,
                       source_width |-> sz[1], source_height |-> sz[2]]
           /\ compositor' =
                IF copied THEN r.self
                ELSE [r.self EXCEPT !.readback_buffers = compositor.readback_buffers]
           /\ result' = [ok |-> FALSE, data |-> <<>>]
  /\ done' = TRUE
  /\ UNCHANGED <<spring, tracker, encoder, recorder, listener>>

ResizeOutput ==
  /\ compositor # NoCompositor
  /\ \E w \in OutputWidths, h \in OutputHeights :
       /\ call' = [fn |-> "resize_output", width |-> w, height |-> h]
       /\ compositor' = resize_output(compositor, w, h)
  /\ result' = <<>>
  /\ done' = TRUE
  /\ UNCHANGED <<spring, tracker, encoder, recorder, listener>>

NextComp == CompositeFrame \/ CompositeFrameFails \/ ResizeOutput

SpecComp == InitComp /\ [][NextComp]_vars

CompositeReturned == done /\ call.fn = "composite_frame" /\ result.ok

\* the readback buffer the last composite_frame call used
LastReadback == compositor.readback_buffers[((compositor.readback_index + 1) % 2) + 1]

\* C12: a successful composite_frame returns exactly out_w * out_h * 4
\* bytes whatever the source dimensions; the padded row length is the least
\* multiple of 256 that is >= out_w * 4; output row r is the first
\* out_w * 4 bytes of padded row r of the mapped readback buffer, the whole
\* buffer when padded equals unpadded.
C12_OutputLength ==
  CompositeReturned =>
    LET out_w == compositor.output_size[1]
        out_h == compositor.output_size[2]
        padded == padded_bytes_per_row(out_w)
    IN  /\ Len(result.data) = out_w * out_h * 4
        /\ padded % 256 = 0 /\ padded >= out_w * 4 /\ padded - 256 < out_w * 4
        /\ \A r \in 0..(out_h - 1) : \A b \in 0..(out_w * 4 - 1) :
             result.data[r * out_w * 4 + b + 1] = LastReadback[r * padded + b + 1]
        /\ padded = out_w * 4 => result.data = LastReadback

C12_Witness ==
  /\ CompositeReturned
  /\ compositor.output_size = <<65, 2>>
  /\ <<call.source_width, call.source_height>> = <<2, 2>>
  /\ Len(result.data) = 520
  /\ Len(LastReadback) = 1024

\* C25: readback is double-buffered: readback_index is always 0 or 1;
\* every composite_frame call, whether it returns Ok or a readback error,
\* copies to the current slot and flips the index, so two consecutive
\* calls never use the same readback buffer; resize_output does not
\* change the index; after a successful call the used buffer is unmapped.
C25_DoubleBuffered ==
  /\ [](compositor.readback_index \in {0, 1})
  /\ [][call'.fn = "composite_frame" =>
          /\ compositor'.copy_target = <<compositor.readback_index>>
          /\ compositor'.readback_index = 1 - compositor.readback_index
          /\ compositor'.copy_target # compositor.copy_target]_vars
  /\ [][call'.fn = "resize_output" =>
          compositor'.readback_index = compositor.readback_index]_vars
  /\ [](CompositeReturned => ~compositor.mapped[compositor.copy_target[1] + 1])

\* a call failed on the second slot, after a call on the first and with
\* the output resized since the compositor was created
C25_Witness ==
  /\ call.fn = "composite_frame"
  /\ ~result.ok
  /\ compositor.copy_target = <<1>>
  /\ compositor.readback_index = 0
  /\ compositor.output_size = <<65, 2>>
  /\ Len(compositor.readback_buffers[1]) = 1024

\* C26: source-texture cache: a composite_frame call creates the source
\* texture if and only if no texture is cached yet or the call's (width,
\* height) differs from the cached key; after every call the cached key
\* equals the call's source dimensions and the cached texture has exactly
\* those dimensions; key and texture never disagree.
C26_SourceTextureCache ==
  /\ [][call'.fn = "composite_frame" =>
          ((compositor'.source_texture_serial # compositor.source_texture_serial)
             <=> \/ ~compositor.cached_source_texture
                 \/ compositor.cached_source_size
                      # <<call'.source_width, call'.source_height>>)]_vars
  /\ [](call.fn = "composite_frame" =>
          /\ compositor.cached_source_texture
          /\ compositor.cached_source_size = <<call.source_width, call.source_height>>
          /\ compositor.source_texture_size = <<call.source_width, call.source_height>>)
  /\ [](compositor.cached_source_texture =>
          compositor.source_texture_size = compositor.cached_source_size)

\* a frame of the size of the cached texture was composited after the
\* texture had been replaced for a change of size
C26_Witness ==
  /\ call.fn = "composite_frame"
  /\ compositor.source_texture_serial = 0
  /\ compositor.cached_source_size = <<64, 1>>
  /\ compositor.source_texture_size = <<64, 1>>
  /\ compositor.copy_target = <<0>>
  /\ compositor.readback_index = 1

\* ------------------------------------------------------------------------
\* rendering/cursor_interpolation.rs. The constants are whole milliseconds
\* and unit-less values times FP; the time_ms of an event and a queried
\* time are held in thousandths of a millisecond (ms * Limb), so that the
\* times of interpolated samples can be told apart.
\* ------------------------------------------------------------------------

CLICK_REACTION_WINDOW_MS == 160
SHAKE_THRESHOLD_UV == 15000
SHAKE_DETECTION_WINDOW_MS == 100
MIN_CURSOR_TRAVEL_FOR_INTERPOLATION == 20000
MAX_INTERPOLATED_STEPS == 120
CURSOR_IDLE_MIN_DELAY_MS == 500
CURSOR_IDLE_FADE_OUT_MS == 400

\* dx1 * dx2 + dy1 * dy2, of which only the sign is used: exact (in units
\* of 1 / FP^2) for short steps, in fixed point otherwise
Dot(dx1, dy1, dx2, dy2) ==
  IF Abs(dx1) < 30000 /\ Abs(dy1) < 30000 /\ Abs(dx2) < 30000 /\ Abs(dy2) < 30000
  THEN dx1 * dx2 + dy1 * dy2
  ELSE MulFP(dx1, dx2) + MulFP(dy1, dy2)

\* the mean length of the steps into and out of a sample
MeanStep(dx1, dy1, dx2, dy2) == (Hypot(dx1, dy1) + Hypot(dx2, dy2)) \div 2

\* a sample is skipped whenever the direction reverses, however long the steps
SkipsOnReversal(moves, i) ==
  /\ moves[i + 1].time_ms - moves[i - 1].time_ms <= SHAKE_DETECTION_WINDOW_MS * Limb
  /\ Dot(moves[i].x - moves[i - 1].x, moves[i].y - moves[i - 1].y,
         moves[i + 1].x - moves[i].x, moves[i + 1].y - moves[i].y) < 0

\* does filter_cursor_shake skip interior sample i
SkipsSample(moves, i) ==
  LET prev == moves[i - 1]
      curr == moves[i]
      next == moves[i + 1]
      time_window == next.time_ms - prev.time_ms
      dx1 == curr.x - prev.x
      dy1 == curr.y - prev.y
      dx2 == next.x - curr.x
      dy2 == next.y - curr.y
  IN  /\ ~(time_window > SHAKE_DETECTION_WINDOW_MS * Limb)
      /\ Dot(dx1, dy1, dx2, dy2) < 0
      /\ MeanStep(dx1, dy1, dx2, dy2) < SHAKE_THRESHOLD_UV

\* the while loop of filter_cursor_shake from index i (counted from 1) on
RECURSIVE ShakeLoop(_, _, _)
ShakeLoop(moves, i, kept) ==
  IF i >= Len(moves) THEN kept
  ELSE IF SkipsSample(moves, i) THEN ShakeLoop(moves, i + 1, kept)
  ELSE ShakeLoop(moves, i + 1, Append(kept, moves[i]))

\* filter_cursor_shake
filter_cursor_shake(moves) ==
  IF Len(moves) < 3 THEN moves
  ELSE Append(ShakeLoop(moves, 2, <<moves[1]>>), moves[Len(moves)])


\* is the gap (thousandths of a ms) above GAP_INTERPOLATION_THRESHOLD_MS,
\* four frame intervals of 1000 / 60 ms
AboveGapThreshold(gap) == gap * 60 > 4 * 1000 * Limb

\* (gap / CURSOR_FRAME_DURATION_MS).ceil(), at least 0 as the cast to usize
StepCount(gap) == Max2(0, (gap * 60 + (1000 * Limb - 1)) \div (1000 * Limb))

\* the number of sub-intervals without the cap of MAX_INTERPOLATED_STEPS
StepsUncapped(gap) == Max2(StepCount(gap), 2)

\* the number of sub-intervals a gap is cut into
Steps(gap) == Max2(Min2(StepCount(gap), MAX_INTERPOLATED_STEPS), 2)

\* the sample inserted at step s of steps between a and b
InsertedSample(a, b, s, steps) ==
  TheOne({TheOne({[time_ms |-> a.time_ms + ((b.time_ms - a.time_ms) * s) \div steps,
                   x |-> a.x + MulFP(b.x - a.x, smooth_t),
                   y |-> a.y + MulFP(b.y - a.y, smooth_t),
                   cursor_id |-> a.cursor_id] :
                    smooth_t \in {MulFP(MulFP(t, t), 3 * FP - 2 * t)}}) :
            t \in {(s * FP) \div steps}})

\* the loop "for s in 1..steps" of densify_cursor_moves: the samples pushed
InsertLoop(a, b, steps) == [s \in 1..(steps - 1) |-> InsertedSample(a, b, s, steps)]

\* what densify_cursor_moves pushes for the window (a, b)
DensifyWindow(a, b) ==
  IF a.cursor_id # b.cursor_id THEN <<b>>
  ELSE IF /\ AboveGapThreshold(b.time_ms - a.time_ms)
          /\ Hypot(b.x - a.x, b.y - a.y) > MIN_CURSOR_TRAVEL_FOR_INTERPOLATION
       THEN Append(InsertLoop(a, b, Steps(b.time_ms - a.time_ms)), b)
       ELSE <<b>>

\* the loop over moves.windows(2) from window i on
RECURSIVE DensifyLoop(_, _, _)
DensifyLoop(moves, i, acc) ==
  IF i >= Len(moves) THEN acc
  ELSE TheOne({DensifyLoop(moves, i + 1, pushed) :
                 pushed \in {acc \o DensifyWindow(moves[i], moves[i + 1])}})

\* densify_cursor_moves
densify_cursor_moves(moves) ==
  IF Len(moves) < 2 THEN moves
  ELSE DensifyLoop(moves, 1, <<moves[1]>>)


CURSOR_CLICK_DURATION == 250000

\* CursorSpringPresets::new; click_spring is <<>> for None
CursorSpringPresetsNew(base, click_spring) ==
  [default |-> base,
   snappy |-> IF click_spring = <<>>
              THEN [tension |-> 700 * FP, mass |-> FP, friction |-> 30 * FP]
              ELSE click_spring[1],
   drag |-> scaled(base, (8 * FP) \div 10, (12 * FP) \div 10, (13 * FP) \div 10)]

\* CursorSpringPresets::config
PresetConfig(presets, profile) ==
  IF profile = "Default" THEN presets.default
  ELSE IF profile = "Snappy" THEN presets.snappy
  ELSE presets.drag

\* ClickProfileTracker::new; next_index counts from 1, last_click_time is
\* <<>> for None
ClickProfileTrackerNew(clicks) ==
  [clicks |-> clicks, next_index |-> 1, last_click_time |-> <<>>, primary_down |-> FALSE]

\* ClickProfileTracker::advance_to
RECURSIVE advance_to(_, _)
advance_to(self, time_ms) ==
  IF self.next_index > Len(self.clicks) THEN self
  ELSE LET click == self.clicks[self.next_index]
       IN  IF click.time_ms > time_ms THEN self
           ELSE TheOne({advance_to(next, time_ms) :
                  next \in {[self EXCEPT
                               !.last_click_time = <<click.time_ms>>,
                               !.primary_down = IF click.button = "left" \/ click.button = "primary"
                                                THEN click.down ELSE @,
                               !.next_index = @ + 1]}})

\* a profile choice that looks at the click window before the drag state
ProfileSnappyFirst(self, time_ms) ==
  IF /\ self.last_click_time # <<>>
     /\ Abs(time_ms - self.last_click_time[1]) < CLICK_REACTION_WINDOW_MS * Limb
  THEN "Snappy"
  ELSE IF /\ self.next_index <= Len(self.clicks)
          /\ Abs(self.clicks[self.next_index].time_ms - time_ms)
               < CLICK_REACTION_WINDOW_MS * Limb
       THEN "Snappy"
  ELSE IF self.primary_down THEN "Drag"
  ELSE "Default"

\* ClickProfileTracker::profile
profile(self, time_ms) ==
  IF self.primary_down THEN "Drag"
  ELSE IF /\ self.last_click_time # <<>>
          /\ Abs(time_ms - self.last_click_time[1]) < CLICK_REACTION_WINDOW_MS * Limb
       THEN "Snappy"
  ELSE IF /\ self.next_index <= Len(self.clicks)
          /\ Abs(self.clicks[self.next_index].time_ms - time_ms)
               < CLICK_REACTION_WINDOW_MS * Limb
       THEN "Snappy"
  ELSE "Default"

\* one turn of the loop of get_smoothed_events for the move m
SmoothStep(st, m, presets) ==
  TheOne({TheOne({[sim |-> sim, tracker |-> advanced, last_time |-> m.time_ms,
                   result |-> Append(st.result,
                                [time |-> m.time_ms,
                                 target |-> <<m.x, m.y>>,
                                 position |-> <<Clamp(sim.position[1], 0, FP),
                                                Clamp(sim.position[2], 0, FP)>>,
                                 velocity |-> sim.velocity,
                                 cursor_id |-> m.cursor_id])] :
                    sim \in {RunFraction(set_config(set_target(st.sim, <<m.x, m.y>>),
                                                    PresetConfig(presets, profile(advanced, m.time_ms))),
                                         m.time_ms - st.last_time)}}) :
            advanced \in {advance_to(st.tracker, m.time_ms)}})

\* the loop "for m in moves.iter()" of get_smoothed_events from move i on
RECURSIVE SmoothLoop(_, _, _, _)
SmoothLoop(st, moves, i, presets) ==
  IF i > Len(moves) THEN st
  ELSE TheOne({SmoothLoop(next, moves, i + 1, presets) :
                 next \in {SmoothStep(st, moves[i], presets)}})

\* get_smoothed_events
get_smoothed_events(events, moves, base_config, click_spring) ==
  IF moves = <<>> THEN <<>>
  ELSE LET start == <<moves[1].x, moves[1].y>>
           sim == set_target(set_velocity(set_position(SpringNew(base_config), start),
                                          <<0, 0>>), start)
           first == IF moves[1].time_ms > 0
                    THEN <<[time |-> 0, target |-> sim.target, position |-> sim.position,
                            velocity |-> sim.velocity, cursor_id |-> moves[1].cursor_id]>>
                    ELSE <<>>
       IN  SmoothLoop([sim |-> sim, tracker |-> ClickProfileTrackerNew(events.clicks),
                       last_time |-> 0, result |-> first],
                      moves, 1, CursorSpringPresetsNew(base_config, click_spring)).result

\* the loop of compute_click_state from click i on: <<last_down_time,
\* is_down>>, last_down_time being <<>> for None
RECURSIVE ClickStateLoop(_, _, _, _, _)
ClickStateLoop(clicks, time_ms, i, last_down_time, is_down) ==
  IF i > Len(clicks) \/ clicks[i].time_ms > time_ms THEN <<last_down_time, is_down>>
  ELSE IF clicks[i].down
       THEN ClickStateLoop(clicks, time_ms, i + 1, <<clicks[i].time_ms>>, TRUE)
       ELSE ClickStateLoop(clicks, time_ms, i + 1, last_down_time, FALSE)

\* compute_click_state: <<progress, is_down>>
compute_click_state(events, time_ms) ==
  LET st == ClickStateLoop(events.clicks, time_ms, 1, <<>>, FALSE)
  IN  <<IF st[1] = <<>> THEN 0
        ELSE Min2(DivFP(time_ms - st[1][1], CURSOR_CLICK_DURATION), FP),
        st[2]>>

\* the fade of a cursor that has been idle for idle_time
IdleFade(idle_time) ==
  IF idle_time > CURSOR_IDLE_MIN_DELAY_MS * Limb
  THEN Max2(FP - DivFP(idle_time - CURSOR_IDLE_MIN_DELAY_MS * Limb,
                       CURSOR_IDLE_FADE_OUT_MS * Limb), 0)
  ELSE FP

\* compute_idle_opacity
compute_idle_opacity(events, time_ms) ==
  LET before == {i \in 1..Len(events.moves) : events.moves[i].time_ms <= time_ms}
  IN  IF before = {} THEN FP
      ELSE IdleFade(time_ms - events.moves[CHOOSE i \in before : \A k \in before : k <= i].time_ms)

\* the test of the windows(2).find of interpolate_from_smoothed
BracketsSmoothed(a, b, time_ms) == a.time <= time_ms /\ time_ms < b.time

\* interpolate_from_smoothed; <<>> is None, <<c>> is Some(c)
interpolate_from_smoothed(smoothed, time_secs, config, events) ==
  IF smoothed = <<>> THEN <<>>
  ELSE LET time_ms == time_secs
           found == {i \in 1..(Len(smoothed) - 1) :
                       BracketsSmoothed(smoothed[i], smoothed[i + 1], time_ms)}
           e == IF found # {}
                THEN smoothed[CHOOSE i \in found : \A k \in found : i <= k]
                ELSE smoothed[Len(smoothed)]
           state == TheOne({TheOne({[x |-> Clamp(sim.position[1], 0, FP),
                                     y |-> Clamp(sim.position[2], 0, FP),
                                     velocity_x |-> sim.velocity[1],
                                     velocity_y |-> sim.velocity[2],
                                     cursor_id |-> e.cursor_id,
                                     click_progress |-> click[1],
                                     is_clicking |-> click[2],
                                     opacity |-> compute_idle_opacity(events, time_ms)] :
                              sim \in {RunFraction(
                                         set_target(set_velocity(set_position(SpringNew(config),
                                                                              e.position),
                                                                 e.velocity), e.target),
                                         time_ms - e.time)}}) :
                      click \in {compute_click_state(events, time_ms)}})
       IN  <<state>>

\* the test of the loop of interpolate_linear, with strict comparisons
BracketsStrictly(a, b, time_ms) == a.time_ms < time_ms /\ time_ms < b.time_ms

\* the test of the loop of interpolate_linear
Brackets(a, b, time_ms) == a.time_ms <= time_ms /\ time_ms <= b.time_ms

\* interpolate_linear; <<>> is None, <<c>> is Some(c)
interpolate_linear(events, time_ms) ==
  LET found == {i \in 1..(Len(events.moves) - 1) :
                  Brackets(events.moves[i], events.moves[i + 1], time_ms)}
  IN  IF found = {} THEN <<>>
      ELSE LET a == events.moves[CHOOSE i \in found : \A k \in found : i <= k]
               b == events.moves[(CHOOSE i \in found : \A k \in found : i <= k) + 1]
               t == IF Abs(b.time_ms - a.time_ms) < 1 THEN 0
                    ELSE DivFP(time_ms - a.time_ms, b.time_ms - a.time_ms)
               dt == Max2(b.time_ms - a.time_ms, Limb)
               click == compute_click_state(events, time_ms)
           IN  <<[x |-> a.x + MulFP(b.x - a.x, t),
                  y |-> a.y + MulFP(b.y - a.y, t),
                  velocity_x |-> DivFP(b.x - a.x, dt),
                  velocity_y |-> DivFP(b.y - a.y, dt),
                  cursor_id |-> a.cursor_id,
                  click_progress |-> click[1],
                  is_clicking |-> click[2],
                  opacity |-> compute_idle_opacity(events, time_ms)]>>

\* the state interpolate_cursor returns outside the recorded moves
HeldAt(e, opacity) ==
  [x |-> e.x, y |-> e.y, velocity_x |-> 0, velocity_y |-> 0, cursor_id |-> e.cursor_id,
   click_progress |-> 0, is_clicking |-> FALSE, opacity |-> opacity]

\* interpolate_cursor; smoothing and click_spring are <<>> for None, the
\* result is <<>> for None and <<c>> for Some(c)
interpolate_cursor(events, time_secs, smoothing, click_spring) ==
  LET time_ms == time_secs
      moves == events.moves
  IN  IF moves = <<>> THEN <<>>
      ELSE IF moves[1].time_ms > time_ms THEN <<HeldAt(moves[1], FP)>>
      ELSE IF moves[Len(moves)].time_ms <= time_ms
           THEN <<HeldAt(moves[Len(moves)], IdleFade(time_ms - moves[Len(moves)].time_ms))>>
      ELSE IF smoothing # <<>>
           THEN TheOne({interpolate_from_smoothed(smoothed, time_secs, smoothing[1], events) :
                  smoothed \in {get_smoothed_events(
                                  events, densify_cursor_moves(filter_cursor_shake(moves)),
                                  smoothing[1], click_spring)}})
      ELSE interpolate_linear(events, time_ms)

\* ------------------------------------------------------------------------
\* Specification SpecCursor: one call of a function of
\* rendering/cursor_interpolation.rs
\* ------------------------------------------------------------------------

MaxCursorMoves == 4

\* sample times (ms): the neighbours of a sample are 80 ms, exactly 100 ms
\* or more than 100 ms apart
ShakeTimes == {0, 40 * Limb, 80 * Limb, 100 * Limb, 200 * Limb}

\* positions: jitter of 0.005 along either axis and a long step of 0.2
ShakePoints ==
  {<<FP \div 2, FP \div 2>>, <<FP \div 2 + 5000, FP \div 2>>,
   <<FP \div 2, FP \div 2 - 5000>>, <<(7 * FP) \div 10, FP \div 2>>}

ShakeSamples ==
  {[time_ms |-> t, x |-> p[1], y |-> p[2], cursor_id |-> "default"] :
     t \in ShakeTimes, p \in ShakePoints}

\* the lists of at most n samples of S with strictly increasing time
RECURSIVE IncreasingLists(_, _)
IncreasingLists(S, n) ==
  IF n = 0 THEN {<<>>}
  ELSE LET shorter == IncreasingLists(S, n - 1)
       IN  shorter \cup
           UNION {{Append(q, e) : e \in {f \in S : q = <<>> \/ q[Len(q)].time_ms < f.time_ms}} :
                    q \in {r \in shorter : Len(r) = n - 1}}

\* recorded moves: time strictly increasing
ShakeLists == IncreasingLists(ShakeSamples, MaxCursorMoves)

FilterCalls == {[fn |-> "filter_cursor_shake", moves |-> q] : q \in ShakeLists}

MaxDensifyMoves == 3

\* sample times (thousandths of a ms): gaps just below and just above four
\* frame intervals (66.666 and 66.667 ms), of 0.5 s, and of 2.1 s, which
\* is more than MAX_INTERPOLATED_STEPS frame intervals
DensifyTimes == {0, 66666, 66667, 500 * Limb, 2600 * Limb}

\* positions 0.02 and more than 0.02 apart
DensifyPoints ==
  {<<FP \div 10, FP \div 10>>, <<(12 * FP) \div 100, FP \div 10>>,
   <<(9 * FP) \div 10, (9 * FP) \div 10>>}

CursorIds == {"default", "pointer"}

DensifySamples ==
  {[time_ms |-> t, x |-> p[1], y |-> p[2], cursor_id |-> c] :
     t \in DensifyTimes, p \in DensifyPoints, c \in CursorIds}

DensifyLists == IncreasingLists(DensifySamples, MaxDensifyMoves)

DensifyCalls == {[fn |-> "densify_cursor_moves", moves |-> q] : q \in DensifyLists}

MaxInterpMoves == 3

\* recorded moves 100 ms, 300 ms and 400 ms apart
InterpMoveSamples ==
  {[time_ms |-> t, x |-> p[1], y |-> p[2], cursor_id |-> "default"] :
     t \in {100 * Limb, 200 * Limb, 500 * Limb, 600 * Limb},
     p \in {<<FP \div 10, FP \div 10>>, <<(9 * FP) \div 10, (9 * FP) \div 10>>}}

\* move lists sorted by time: strictly increasing, or two samples recorded
\* at the same time
InterpMoveLists ==
  IncreasingLists(InterpMoveSamples, MaxInterpMoves)
    \cup {<<[time_ms |-> 100 * Limb, x |-> FP \div 10, y |-> FP \div 10, cursor_id |-> "default"],
            [time_ms |-> 200 * Limb, x |-> FP \div 2, y |-> FP \div 2, cursor_id |-> "default"],
            [time_ms |-> 200 * Limb, x |-> (9 * FP) \div 10, y |-> (9 * FP) \div 10,
             cursor_id |-> "pointer"]>>}

\* no click, a left press, a left press and release, a right press
InterpClickLists ==
  {<<>>,
   <<[time_ms |-> 150 * Limb, down |-> TRUE, button |-> "left"]>>,
   <<[time_ms |-> 150 * Limb, down |-> TRUE, button |-> "left"],
     [time_ms |-> 180 * Limb, down |-> FALSE, button |-> "left"]>>,
   <<[time_ms |-> 150 * Limb, down |-> TRUE, button |-> "right"]>>}

\* queried times (seconds): before, at, between and after the samples
InterpQueryTimes ==
  {0, 100 * Limb, 150 * Limb, 200 * Limb, 350 * Limb, 1000 * Limb, 1500 * Limb}

InterpolateCursorCalls ==
  {[fn |-> "interpolate_cursor", events |-> [moves |-> m, clicks |-> c],
    time_secs |-> t, smoothing |-> s[1], click_spring |-> s[2]] :
     m \in InterpMoveLists, c \in InterpClickLists, t \in InterpQueryTimes,
     s \in {<<<<>>, <<>>>>, <<<<cursor_default>>, <<>>>>,
            <<<<cursor_default>>, <<cursor_drag>>>>}}

InitCursor ==
  /\ call \in FilterCalls \cup DensifyCalls \cup InterpolateCursorCalls
  /\ result = <<>>
  /\ done = FALSE
  /\ compositor = NoCompositor
  /\ spring = NoSpring
  /\ tracker = NoTracker
  /\ encoder = NoEncoder
  /\ recorder = NoRecorder
  /\ listener = NoListener

FilterCursorShake ==
  /\ ~done
  /\ call.fn = "filter_cursor_shake"
  /\ result' = filter_cursor_shake(call.moves)
  /\ done' = TRUE
  /\ UNCHANGED <<call, compositor, spring, tracker, encoder, recorder, listener>>

DensifyCursorMoves ==
  /\ ~done
  /\ call.fn = "densify_cursor_moves"
  /\ result' = densify_cursor_moves(call.moves)
  /\ done' = TRUE
  /\ UNCHANGED <<call, compositor, spring, tracker, encoder, recorder, listener>>

InterpolateCursor ==
  /\ ~done
  /\ call.fn = "interpolate_cursor"
  /\ result' = interpolate_cursor(call.events, call.time_secs, call.smoothing, call.click_spring)
  /\ done' = TRUE
  /\ UNCHANGED <<call, compositor, spring, tracker, encoder, recorder, listener>>

NextCursor == FilterCursorShake \/ DensifyCursorMoves \/ InterpolateCursor

SpecCursor == InitCursor /\ [][NextCursor]_vars

FilterReturned == done /\ call.fn = "filter_cursor_shake"

\* is sub obtained from full by deleting elements
RECURSIVE IsSubsequence(_, _)
IsSubsequence(sub, full) ==
  IF sub = <<>> THEN TRUE
  ELSE IF full = <<>> THEN FALSE
  ELSE IF Head(sub) = Head(full) THEN IsSubsequence(Tail(sub), Tail(full))
  ELSE IsSubsequence(sub, Tail(full))

\* the interior sample i turns back on itself with short steps inside the
\* detection window
ReversesInWindow(moves, i) ==
  /\ moves[i + 1].time_ms - moves[i - 1].time_ms <= SHAKE_DETECTION_WINDOW_MS * Limb
  /\ Dot(moves[i].x - moves[i - 1].x, moves[i].y - moves[i - 1].y,
         moves[i + 1].x - moves[i].x, moves[i + 1].y - moves[i].y) < 0
  /\ MeanStep(moves[i].x - moves[i - 1].x, moves[i].y - moves[i - 1].y,
              moves[i + 1].x - moves[i].x, moves[i + 1].y - moves[i].y)
       < SHAKE_THRESHOLD_UV

\* C13: filter_cursor_shake never lengthens its input; the output is an
\* order-preserving subsequence that contains the first and the last input
\* sample; fewer than 3 samples are returned unchanged; an interior sample
\* is missing only if the direction reverses there, the mean step is below
\* 0.015 and its neighbours are at most 100 ms apart.
C13_ShakeFilter ==
  FilterReturned =>
    LET moves == call.moves
    IN  /\ Len(result) <= Len(moves)
        /\ IsSubsequence(result, moves)
        /\ Len(moves) >= 1 =>
             /\ Len(result) >= 1
             /\ result[1] = moves[1]
             /\ result[Len(result)] = moves[Len(moves)]
        /\ Len(moves) < 3 => result = moves
        /\ \A i \in 2..(Len(moves) - 1) :
             (\A j \in 1..Len(result) : result[j] # moves[i])
               => ReversesInWindow(moves, i)

\* a jittering interior sample was dropped next to a long reversal that
\* was kept
C13_Witness ==
  /\ FilterReturned
  /\ Len(call.moves) = 4
  /\ Len(result) = 3
  /\ \E i \in 2..3 :
       /\ SkipsOnReversal(call.moves, i)
       /\ ~ReversesInWindow(call.moves, i)

DensifyReturned == done /\ call.fn = "densify_cursor_moves"

\* the place of input sample i in the output
PlaceOf(i) == CHOOSE j \in 1..Len(result) : result[j] = call.moves[i]

\* the pair (a, b) is one densify_cursor_moves fills: same cursor id, more
\* than four frame intervals of 1/60 s apart, more than 0.02 apart
IsFilled(a, b) ==
  /\ a.cursor_id = b.cursor_id
  /\ 3 * (b.time_ms - a.time_ms) > 200 * Limb
  /\ Hypot(b.x - a.x, b.y - a.y) > MIN_CURSOR_TRAVEL_FOR_INTERPOLATION

\* C14: densify_cursor_moves keeps every input sample in its order;
\* between two consecutive input samples it inserts samples only when both
\* carry the same cursor id, are more than four 60 Hz frame intervals apart
\* and more than 0.02 apart, and then it inserts between 1 and 119 samples
\* whose times increase strictly and lie strictly between the pair, so the
\* output is strictly longer; a pair with different cursor ids gets none.
C14_Densify ==
  DensifyReturned =>
    LET moves == call.moves
    IN  /\ \A i \in 1..Len(moves) : \E j \in 1..Len(result) : result[j] = moves[i]
        /\ Len(moves) >= 1 => PlaceOf(1) = 1 /\ PlaceOf(Len(moves)) = Len(result)
        /\ \A i \in 1..(Len(moves) - 1) :
             LET first == PlaceOf(i)
                 last == PlaceOf(i + 1)
                 inserted == last - first - 1
             IN  /\ result[first] = moves[i]
                 /\ result[last] = moves[i + 1]
                 /\ first < last
                 /\ inserted > 0 => IsFilled(moves[i], moves[i + 1])
                 /\ moves[i].cursor_id # moves[i + 1].cursor_id => inserted = 0
                 /\ IsFilled(moves[i], moves[i + 1]) =>
                      /\ inserted >= 1
                      /\ inserted < MAX_INTERPOLATED_STEPS
                      /\ Len(result) > Len(moves)
                      /\ \A j \in first..(last - 1) :
                           result[j].time_ms < result[j + 1].time_ms

\* a gap longer than MAX_INTERPOLATED_STEPS frame intervals was filled
C14_Witness ==
  /\ DensifyReturned
  /\ \E i \in 1..(Len(call.moves) - 1) :
       /\ IsFilled(call.moves[i], call.moves[i + 1])
       /\ StepCount(call.moves[i + 1].time_ms - call.moves[i].time_ms) > MAX_INTERPOLATED_STEPS
       /\ PlaceOf(i + 1) - PlaceOf(i) = MAX_INTERPOLATED_STEPS

InterpolateCursorReturned == done /\ call.fn = "interpolate_cursor"

\* C15: interpolate_cursor returns None if and only if the move list is
\* empty: for every non-empty move list sorted by time and every query
\* time it returns a cursor state, with smoothing and without.
C15_NoneIffEmpty ==
  InterpolateCursorReturned => (result = <<>> <=> call.events.moves = <<>>)

\* the linear search was used at the very time of a recorded sample
C15_Witness ==
  /\ InterpolateCursorReturned
  /\ call.smoothing = <<>>
  /\ Len(call.events.moves) >= 2
  /\ call.events.moves[1].time_ms = call.time_secs
  /\ call.time_secs < call.events.moves[Len(call.events.moves)].time_ms
  /\ Len(result) = 1

\* opacity 1.0 until the idle delay has elapsed, then a linear decrease
\* over the fade time, never below 0
LinearFade(idle_time, delay, fade) ==
  IF idle_time <= delay THEN FP
  ELSE Max2(FP - DivFP(idle_time - delay, fade), 0)

\* the boundary hold of interpolate_cursor (both with smoothing and
\* without): the first sample before the first sample, the last sample
\* from the last sample on
InterpolatedCursorHolds ==
  (InterpolateCursorReturned /\ call.events.moves # <<>>) =>
    LET moves == call.events.moves
        first == moves[1]
        last == moves[Len(moves)]
        t == call.time_secs
    IN  /\ t < first.time_ms =>
             /\ Len(result) = 1
             /\ result[1].x = first.x /\ result[1].y = first.y
             /\ result[1].velocity_x = 0 /\ result[1].velocity_y = 0
             /\ result[1].opacity = FP
        /\ t >= last.time_ms =>
             /\ Len(result) = 1
             /\ result[1].x = last.x /\ result[1].y = last.y
             /\ result[1].velocity_x = 0 /\ result[1].velocity_y = 0
             /\ result[1].opacity = LinearFade(t - last.time_ms,
                                               CURSOR_IDLE_MIN_DELAY_MS * Limb,
                                               CURSOR_IDLE_FADE_OUT_MS * Limb)

\* the boundary hold of interpolate_cursor_at_time, as evaluate_frame
\* returns it
CursorAtTimeHolds ==
  (FrameReturned /\ call.moves # <<>>) =>
    LET first == call.moves[1]
        last == call.moves[Len(call.moves)]
        t == call.time_ms
    IN  /\ t < first.time =>
             /\ result.cursor.x = first.x /\ result.cursor.y = first.y
             /\ result.cursor.motion = 0
             /\ result.cursor.opacity = FP
        /\ t >= last.time =>
             /\ result.cursor.x = last.x /\ result.cursor.y = last.y
             /\ result.cursor.motion = 0
             /\ result.cursor.opacity = LinearFade(t - last.time, CURSOR_IDLE_DELAY_MS,
                                                  CURSOR_FADE_OUT_MS)

\* C23: boundary hold: before the first move sample the cursor state is
\* the first sample's position with zero velocity and opacity 1.0; at or
\* after the last sample it is the last sample's position with zero
\* velocity, with opacity 1.0 until the idle delay has elapsed, then
\* decreasing linearly and never below 0, in the smoothed and the
\* unsmoothed path of interpolate_cursor and in interpolate_cursor_at_time.
C23_BoundaryHold == InterpolatedCursorHolds /\ CursorAtTimeHolds

\* ------------------------------------------------------------------------
\* Specification SpecSpring: a caller owns one SpringSimulation with a
\* fixed target and calls run on it, frame after frame
\* ------------------------------------------------------------------------

\* the presets and the configuration of tests::overdamped_converges:
\* underdamped (cursor_snappy, screen_movement), critically damped
\* (cursor_default) and overdamped (cursor_drag, the test's)
SpringConfigs ==
  {cursor_default, cursor_snappy, cursor_drag, screen_movement,
   [tension |-> 50 * FP, mass |-> FP, friction |-> 30 * FP]}

SpringTarget == <<FP \div 2, FP \div 2>>

\* initial positions: away from the target, at the target, and within the
\* rest threshold of the target without being at it
SpringPositions ==
  {<<0, 0>>, SpringTarget, <<SpringTarget[1] + 5, SpringTarget[2]>>}
SpringVelocities == {<<0, 0>>, <<2 * FP, 0 - FP>>}

\* the frame intervals a caller advances by (thousandths of a ms)
FrameIntervals == {16667, 100 * Limb, 1000 * Limb}

\* the arguments of run that are not positive
NonPositiveSteps == {0 - 16667, 0}

\* the simulation as a caller sets it up
SpringSetUp(config, position, velocity) ==
  set_target(set_velocity(set_position(SpringNew(config), position), velocity), SpringTarget)

InitSpring ==
  /\ \E c \in SpringConfigs, p \in SpringPositions, v \in SpringVelocities,
        f \in FrameIntervals :
       /\ spring = SpringSetUp(c, p, v)
       /\ call = [fn |-> "new", dt_ms |-> 0, frame_interval |-> f,
                  initial |-> SpringSetUp(c, p, v)]
  /\ result = <<>>
  /\ done = TRUE
  /\ compositor = NoCompositor
  /\ tracker = NoTracker
  /\ encoder = NoEncoder
  /\ recorder = NoRecorder
  /\ listener = NoListener

\* run(dt_ms) with the caller's frame interval
Run ==
  /\ spring # NoSpring
  /\ spring' = RunFraction(spring, call.frame_interval)
  /\ call' = [call EXCEPT !.fn = "run", !.dt_ms = call.frame_interval]
  /\ result' = spring'.position
  /\ done' = TRUE
  /\ UNCHANGED <<compositor, tracker, encoder, recorder, listener>>

\* run(dt_ms) with dt_ms <= 0
RunNotForward ==
  /\ spring # NoSpring
  /\ \E dt \in NonPositiveSteps :
       /\ spring' = RunFraction(spring, dt)
       /\ call' = [call EXCEPT !.fn = "run", !.dt_ms = dt]
  /\ result' = spring'.position
  /\ done' = TRUE
  /\ UNCHANGED <<compositor, tracker, encoder, recorder, listener>>

NextSpring == Run \/ RunNotForward

SpecSpring == InitSpring /\ [][NextSpring]_vars

\* the caller keeps calling run with a positive dt_ms
SpecSpringLive == SpecSpring /\ WF_vars(Run)

\* C16: run(dt_ms) with dt_ms <= 0 is a no-op: position, velocity, target
\* and config are unchanged and the current position is returned.
C16_NonPositiveIsNoOp ==
  [][(call'.fn = "run" /\ call'.dt_ms <= 0)
       => (spring' = spring /\ result' = spring.position)]_vars

\* run was called with a non-positive dt_ms on a simulation that is within
\* the rest thresholds but has not been snapped to its target
C16_Witness ==
  /\ call.fn = "run"
  /\ call.dt_ms <= 0
  /\ is_at_rest(spring)
  /\ spring.position # spring.target

\* the simulation is at rest: within epsilon of the target with a velocity
\* below the rest threshold
AtRest == is_at_rest(spring)

\* C17: for every spring configuration and every initial position and
\* velocity, calling run(dt > 0) again and again with a fixed target
\* eventually brings the simulation to rest, and it stays at rest.
C17_ReachesRest == <>[]AtRest

\* a simulation that started away from its target was brought to rest by
\* run(dt > 0)
C17_Witness ==
  /\ call.fn = "run"
  /\ call.dt_ms > 0
  /\ ~is_at_rest(call.initial)
  /\ spring.position = spring.target
  /\ spring.velocity = <<0, 0>>
  /\ result = spring.target

\* C24: rest snapping: after any run(dt_ms > 0) whose new displacement is
\* below 1e-5 and whose new velocity is below 1e-4 the position equals
\* the target exactly and the velocity is exactly (0, 0); and a simulation
\* whose position equals its target with zero velocity is at rest without
\* any run.
C24_RestSnaps ==
  /\ (spring # NoSpring /\ call.fn = "run" /\ call.dt_ms > 0 /\ is_at_rest(spring)) =>
       (spring.position = spring.target /\ spring.velocity = <<0, 0>>)
  /\ (spring # NoSpring /\ spring.position = spring.target /\ spring.velocity = <<0, 0>>) =>
       is_at_rest(spring)

\* run(dt > 0) snapped a simulation that was set up moving
C24_Witness ==
  /\ call.fn = "run"
  /\ call.dt_ms > 0
  /\ call.initial.velocity # <<0, 0>>
  /\ call.initial.position # call.initial.target
  /\ spring.position = spring.target
  /\ spring.velocity = <<0, 0>>
  /\ is_at_rest(spring)

\* ------------------------------------------------------------------------
\* SpecReplay: get_smoothed_events replaying the moves one sample at a
\* time; spring is its simulation, tracker its ClickProfileTracker and
\* result the smoothed events pushed so far
\* ------------------------------------------------------------------------

MaxReplayClicks == 2
MaxReplayMoves == 2

ReplayClickSamples ==
  {[time_ms |-> t, down |-> d, button |-> b] :
     t \in {100 * Limb, 300 * Limb, 460 * Limb}, d \in BOOLEAN, b \in {"left", "right"}}
  \cup {[time_ms |-> 300 * Limb, down |-> TRUE, button |-> "primary"]}

\* clicks sorted by time
ReplayClickLists == IncreasingLists(ReplayClickSamples, MaxReplayClicks)

ReplayMoveSamples ==
  {[time_ms |-> t, x |-> IF t < 200 * Limb THEN FP \div 10 ELSE (9 * FP) \div 10,
    y |-> FP \div 2, cursor_id |-> "default"] :
     t \in {0, 140 * Limb, 260 * Limb, 300 * Limb, 460 * Limb - 1, 620 * Limb}}

\* moves in time order, at least one
ReplayMoveLists == IncreasingLists(ReplayMoveSamples, MaxReplayMoves) \ {<<>>}

ReplayClickSprings == {<<>>}

\* get_smoothed_events up to its loop
InitReplay ==
  /\ \E clicks \in ReplayClickLists, moves \in ReplayMoveLists, cs \in ReplayClickSprings :
       /\ call = [fn |-> "get_smoothed_events", events |-> [clicks |-> clicks],
                  moves |-> moves, base_config |-> cursor_default, click_spring |-> cs]
       /\ spring = set_target(set_velocity(set_position(SpringNew(cursor_default),
                                                        <<moves[1].x, moves[1].y>>),
                                           <<0, 0>>),
                              <<moves[1].x, moves[1].y>>)
       /\ tracker = ClickProfileTrackerNew(clicks)
       /\ result = IF moves[1].time_ms > 0
                   THEN <<[time |-> 0, target |-> <<moves[1].x, moves[1].y>>,
                           position |-> <<moves[1].x, moves[1].y>>,
                           velocity |-> <<0, 0>>, cursor_id |-> moves[1].cursor_id]>>
                   ELSE <<>>
  /\ done = FALSE
  /\ compositor = NoCompositor
  /\ encoder = NoEncoder
  /\ recorder = NoRecorder
  /\ listener = NoListener

\* the number of moves the loop has replayed
Replayed == Len(result) - (IF call.moves[1].time_ms > 0 THEN 1 ELSE 0)

\* one turn of the loop "for m in moves.iter()"
ReplaySample ==
  /\ call.fn = "get_smoothed_events"
  /\ Replayed < Len(call.moves)
  /\ LET st == SmoothStep([sim |-> spring, tracker |-> tracker,
                           last_time |-> IF Replayed = 0 THEN 0
                                         ELSE call.moves[Replayed].time_ms,
                           result |-> result],
                          call.moves[Replayed + 1],
                          CursorSpringPresetsNew(call.base_config, call.click_spring))
     IN  /\ spring' = st.sim
         /\ tracker' = st.tracker
         /\ result' = st.result
         /\ done' = (Len(st.result) - Len(result) + Replayed = Len(call.moves))
  /\ UNCHANGED <<call, compositor, encoder, recorder, listener>>

NextReplay == ReplaySample

SpecReplay == InitReplay /\ [][NextReplay]_vars

\* the time of the sample replayed last
SampleTime == call.moves[Replayed].time_ms

LastOf(S) == CHOOSE i \in S : \A j \in S : j <= i
FirstOf(S) == CHOOSE i \in S : \A j \in S : i <= j

\* the left/primary clicks at or before t, the clicks at or before t and
\* the clicks after t, as places in the click list
PrimaryClicksUpTo(t) ==
  {i \in 1..Len(call.events.clicks) :
     /\ call.events.clicks[i].time_ms <= t
     /\ call.events.clicks[i].button \in {"left", "primary"}}
ClicksUpTo(t) == {i \in 1..Len(call.events.clicks) : call.events.clicks[i].time_ms <= t}
ClicksAfter(t) == {i \in 1..Len(call.events.clicks) : call.events.clicks[i].time_ms > t}

DragExpected(t) ==
  /\ PrimaryClicksUpTo(t) # {}
  /\ call.events.clicks[LastOf(PrimaryClicksUpTo(t))].down

SnappyExpected(t) ==
  \/ /\ ClicksUpTo(t) # {}
     /\ t - call.events.clicks[LastOf(ClicksUpTo(t))].time_ms < 160 * Limb
  \/ /\ ClicksAfter(t) # {}
     /\ call.events.clicks[FirstOf(ClicksAfter(t))].time_ms - t < 160 * Limb

ExpectedProfile(t) ==
  IF DragExpected(t) THEN "Drag"
  ELSE IF SnappyExpected(t) THEN "Snappy"
  ELSE "Default"

\* C22: with clicks sorted by time and samples replayed in time order,
\* the profile at sample time t is Drag iff the most recent left/primary
\* click at or before t is a down event; otherwise Snappy iff the most
\* recent click at or before t or the next click after t is less than
\* 160 ms from t; otherwise Default. The simulation runs the sample with
\* the configuration of that profile.
C22_ProfileSelection ==
  (call.fn = "get_smoothed_events" /\ Replayed > 0) =>
    /\ profile(tracker, SampleTime) = ExpectedProfile(SampleTime)
    /\ spring.config = PresetConfig(CursorSpringPresetsNew(call.base_config, call.click_spring),
                                    ExpectedProfile(SampleTime))
    /\ tracker.primary_down = DragExpected(SampleTime)

\* a sample inside the click window of a right-button click while the
\* left button is held down was replayed after an earlier sample
C22_Witness ==
  /\ call.fn = "get_smoothed_events"
  /\ Replayed > 1
  /\ DragExpected(SampleTime)
  /\ SnappyExpected(SampleTime)
  /\ call.events.clicks[LastOf(ClicksUpTo(SampleTime))].button = "right"
  /\ spring.config.mass > FP

\* ------------------------------------------------------------------------
\* commands/export.rs: export_mp4. encoder holds the encode loop and the
\* pipe to ffmpeg: written, the writes made to stdin in order, each the
\* bytes of one write_all; encoded, the loop's counter; i, the number of
\* frames the loop has gone through; width and height, the video size.
\* A byte of pixel data is a number, a padding byte is 0.
\* ------------------------------------------------------------------------

\* the padded copy of a frame that is not of the expected size
PaddedFrame(rgba_data, expected_size) ==
  LET copy_len == Min2(Len(rgba_data), expected_size)
  IN  [k \in 1..expected_size |-> IF k <= copy_len THEN rgba_data[k] ELSE 0]

\* the start of export_mp4 up to the spawn of ffmpeg, for a non-empty
\* frame buffer
EncoderNew(config, frames) ==
  [width |-> Max2(config.width, frames[1].width),
   height |-> Max2(config.height, frames[1].height),
   written |-> <<>>, encoded |-> 0, i |-> 0]

expected_size(enc) == enc.width * enc.height * 4

\* does the loop write anything for the frame
WritesFrame(enc, frame) ==
  Len(frame.rgba_data) = expected_size(enc) \/ frame.rgba_data # <<>>

\* one turn of the encode loop with its write, if any, succeeding
EncodeStep(enc, frame) ==
  [enc EXCEPT
     !.written = IF Len(frame.rgba_data) = expected_size(enc)
                 THEN Append(@, frame.rgba_data)
                 ELSE IF frame.rgba_data # <<>>
                      THEN Append(@, PaddedFrame(frame.rgba_data, expected_size(enc)))
                      ELSE @,
     !.encoded = @ + 1,
     !.i = @ + 1]

MaxExportFrames == 3

PixelData(n) == [k \in 1..n |-> 9]

ExportFrameSamples ==
  {[rgba_data |-> PixelData(n), width |-> w, height |-> 1] :
     n \in {0, 4, 8, 12}, w \in {1, 2}}

ExportFrameLists == SeqsUpTo(ExportFrameSamples, MaxExportFrames)

ExportConfigs == {[width |-> w, height |-> 1] : w \in {1, 2}}

InitExport ==
  /\ \E c \in ExportConfigs, f \in ExportFrameLists :
       call = [fn |-> "export_mp4", config |-> c, frames |-> f]
  /\ result = <<>>
  /\ done = FALSE
  /\ compositor = NoCompositor
  /\ spring = NoSpring
  /\ tracker = NoTracker
  /\ encoder = NoEncoder
  /\ recorder = NoRecorder
  /\ listener = NoListener

\* export_mp4 returns Err before encoding: no frames captured, or ffmpeg
\* not found, the output directory not created, ffmpeg not started
ExportFailsToStart ==
  /\ ~done /\ encoder = NoEncoder
  /\ result' = [ok |-> FALSE, frames_encoded |-> 0]
  /\ done' = TRUE
  /\ UNCHANGED <<call, compositor, spring, tracker, encoder, recorder, listener>>

\* ffmpeg is spawned with its stdin piped
ExportStarts ==
  /\ ~done /\ encoder = NoEncoder
  /\ call.frames # <<>>
  /\ encoder' = EncoderNew(call.config, call.frames)
  /\ UNCHANGED <<call, result, done, compositor, spring, tracker, recorder, listener>>

\* one turn of the loop "for (i, frame) in frames.iter().enumerate()"
EncodeFrame ==
  /\ ~done /\ encoder # NoEncoder
  /\ encoder.i < Len(call.frames)
  /\ encoder' = EncodeStep(encoder, call.frames[encoder.i + 1])
  /\ UNCHANGED <<call, result, done, compositor, spring, tracker, recorder, listener>>

\* write_all fails: the task returns Err and so does export_mp4
EncodeFrameFails ==
  /\ ~done /\ encoder # NoEncoder
  /\ encoder.i < Len(call.frames)
  /\ WritesFrame(encoder, call.frames[encoder.i + 1])
  /\ result' = [ok |-> FALSE, frames_encoded |-> 0]
  /\ done' = TRUE
  /\ UNCHANGED <<call, compositor, spring, tracker, encoder, recorder, listener>>

\* the loop is over: stdin is dropped, ffmpeg is waited for and
\* export_mp4 returns Ok with frames_encoded, or Err when ffmpeg failed
ExportReturns ==
  /\ ~done /\ encoder # NoEncoder
  /\ encoder.i = Len(call.frames)
  /\ \E success \in BOOLEAN :
       result' = IF success THEN [ok |-> TRUE, frames_encoded |-> encoder.encoded]
                 ELSE [ok |-> FALSE, frames_encoded |-> 0]
  /\ done' = TRUE
  /\ UNCHANGED <<call, compositor, spring, tracker, encoder, recorder, listener>>

NextExport ==
  ExportFailsToStart \/ ExportStarts \/ EncodeFrame \/ EncodeFrameFails \/ ExportReturns

SpecExport == InitExport /\ [][NextExport]_vars

\* C27: a frame whose byte length differs from the expected width *
\* height * 4 is not an error: each frame the loop has gone through
\* resulted in exactly one write of exactly expected-size bytes, a shorter
\* frame being its bytes followed by zeros, and frames_encoded equals the
\* number of frames written.
C27_OneWritePerFrame ==
  /\ encoder # NoEncoder =>
       /\ Len(encoder.written) = encoder.i
       /\ \A j \in 1..Len(encoder.written) :
            Len(encoder.written[j]) = expected_size(encoder)
       /\ \A j \in 1..encoder.i :
            LET data == call.frames[j].rgba_data
            IN  (Len(data) <= expected_size(encoder) /\ j <= Len(encoder.written)) =>
                  \A k \in 1..expected_size(encoder) :
                    encoder.written[j][k] = IF k <= Len(data) THEN data[k] ELSE 0
  /\ (done /\ result.ok) => result.frames_encoded = Len(encoder.written)

\* ------------------------------------------------------------------------
\* commands/native_capture.rs: start_native_capture, stop_native_capture
\* and the capture threads, interleaved step by step. recorder holds the
\* NativeRecorderState (is_recording, frame_count, frames_dropped,
\* start_time, frame_buffer), the invocations of the two commands with
\* their positions (starts, stops) and the capture threads spawned so far
\* (threads). A frame in frame_buffer is the number of the thread that
\* pushed it; start_time is <<>> for None and <<k>> once start k set it.
\* ------------------------------------------------------------------------

MaxStartCalls == 2
MaxStopCalls == 1
MaxCapturedFrames == 2
MaxDroppedFrames == 1

\* NativeRecorderState::default
RecorderDefault ==
  [is_recording |-> FALSE, frame_count |-> 0, frames_dropped |-> 0,
   start_time |-> <<>>, frame_buffer |-> <<>>,
   starts |-> <<>>, stops |-> <<>>, threads |-> <<>>]

InitCapture ==
  /\ recorder = RecorderDefault
  /\ call = [fn |-> "none"]
  /\ result = <<>>
  /\ done = TRUE
  /\ compositor = NoCompositor
  /\ spring = NoSpring
  /\ tracker = NoTracker
  /\ encoder = NoEncoder
  /\ listener = NoListener

CaptureOthers == <<compositor, spring, tracker, encoder, listener>>

\* the frontend invokes start_native_capture
CallStartNativeCapture ==
  /\ recorder # NoRecorder
  /\ Len(recorder.starts) < MaxStartCalls
  /\ recorder' = [recorder EXCEPT !.starts = Append(@, "load")]
  /\ call' = [fn |-> "start_native_capture"]
  /\ done' = FALSE
  /\ UNCHANGED <<result, CaptureOthers>>

\* if state.is_recording.load() { return Err("Already recording") }
StartLoad(k) ==
  /\ k <= Len(recorder.starts)
  /\ recorder.starts[k] = "load"
  /\ IF recorder.is_recording
     THEN /\ recorder' = [recorder EXCEPT !.starts[k] = "err_already"]
          /\ result' = [fn |-> "start_native_capture", ok |-> FALSE,
                        value |-> "Already recording"]
     ELSE /\ recorder' = [recorder EXCEPT !.starts[k] = "validate"]
          /\ UNCHANGED result
  /\ UNCHANGED <<call, done, CaptureOthers>>

\* the monitors are enumerated and the index is validated
StartValidate(k) ==
  /\ k <= Len(recorder.starts)
  /\ recorder.starts[k] = "validate"
  /\ \E found \in BOOLEAN :
       IF found
       THEN /\ recorder' = [recorder EXCEPT !.starts[k] = "store_recording"]
            /\ UNCHANGED result
       ELSE /\ recorder' = [recorder EXCEPT !.starts[k] = "err_monitor"]
            /\ result' = [fn |-> "start_native_capture", ok |-> FALSE,
                          value |-> "Monitor not found"]
  /\ UNCHANGED <<call, done, CaptureOthers>>

\* state.is_recording.store(true)
StartStoreRecording(k) ==
  /\ k <= Len(recorder.starts)
  /\ recorder.starts[k] = "store_recording"
  /\ recorder' = [recorder EXCEPT !.is_recording = TRUE, !.starts[k] = "store_count"]
  /\ UNCHANGED <<call, result, done, CaptureOthers>>

\* state.frame_count.store(0); state.frames_dropped.store(0)
StartStoreCount(k) ==
  /\ k <= Len(recorder.starts)
  /\ recorder.starts[k] = "store_count"
  /\ recorder' = [recorder EXCEPT !.frame_count = 0, !.starts[k] = "store_dropped"]
  /\ UNCHANGED <<call, result, done, CaptureOthers>>

StartStoreDropped(k) ==
  /\ k <= Len(recorder.starts)
  /\ recorder.starts[k] = "store_dropped"
  /\ recorder' = [recorder EXCEPT !.frames_dropped = 0, !.starts[k] = "set_start_time"]
  /\ UNCHANGED <<call, result, done, CaptureOthers>>

\* *start = Some(Instant::now())
StartSetStartTime(k) ==
  /\ k <= Len(recorder.starts)
  /\ recorder.starts[k] = "set_start_time"
  /\ recorder' = [recorder EXCEPT !.start_time = <<k>>, !.starts[k] = "clear_buffer"]
  /\ UNCHANGED <<call, result, done, CaptureOthers>>

\* buffer.clear()
StartClearBuffer(k) ==
  /\ k <= Len(recorder.starts)
  /\ recorder.starts[k] = "clear_buffer"
  /\ recorder' = [recorder EXCEPT !.frame_buffer = <<>>, !.starts[k] = "spawn"]
  /\ UNCHANGED <<call, result, done, CaptureOthers>>

\* std::thread::spawn(...); Ok(())
StartSpawn(k) ==
  /\ k <= Len(recorder.starts)
  /\ recorder.starts[k] = "spawn"
  /\ recorder' = [recorder EXCEPT !.threads = Append(@, "enumerate"), !.starts[k] = "ok"]
  /\ result' = [fn |-> "start_native_capture", ok |-> TRUE, value |-> <<>>]
  /\ UNCHANGED <<call, done, CaptureOthers>>

\* the capture thread enumerates the monitors, and returns when that fails
ThreadEnumerate(t) ==
  /\ t <= Len(recorder.threads)
  /\ recorder.threads[t] = "enumerate"
  /\ \E found \in BOOLEAN :
       recorder' = [recorder EXCEPT !.threads[t] = IF found THEN "check" ELSE "exited"]
  /\ UNCHANGED <<call, result, done, CaptureOthers>>

\* while is_recording.load(): the thread, started or woken from its
\* sleep, goes on to capture or leaves the loop and exits
ThreadCheck(t) ==
  /\ t <= Len(recorder.threads)
  /\ recorder.threads[t] = "check"
  /\ recorder' = [recorder EXCEPT
                    !.threads[t] = IF recorder.is_recording THEN "capture" ELSE "exited"]
  /\ UNCHANGED <<call, result, done, CaptureOthers>>

\* monitor.capture_image() is Ok: frame_count.fetch_add(1)
ThreadCapture(t) ==
  /\ t <= Len(recorder.threads)
  /\ recorder.threads[t] = "capture"
  /\ recorder.frame_count < MaxCapturedFrames
  /\ Len(recorder.frame_buffer) < MaxCapturedFrames
  /\ recorder' = [recorder EXCEPT !.frame_count = @ + 1, !.threads[t] = "push"]
  /\ UNCHANGED <<call, result, done, CaptureOthers>>

\* monitor.capture_image() is Err: frames_dropped.fetch_add(1), then sleep
ThreadDrop(t) ==
  /\ t <= Len(recorder.threads)
  /\ recorder.threads[t] = "capture"
  /\ recorder.frames_dropped < MaxDroppedFrames
  /\ recorder' = [recorder EXCEPT !.frames_dropped = @ + 1, !.threads[t] = "check"]
  /\ UNCHANGED <<call, result, done, CaptureOthers>>

\* buffer.push(encoded_frame), the notification, then sleep
ThreadPush(t) ==
  /\ t <= Len(recorder.threads)
  /\ recorder.threads[t] = "push"
  /\ recorder' = [recorder EXCEPT !.frame_buffer = Append(@, t), !.threads[t] = "check"]
  /\ UNCHANGED <<call, result, done, CaptureOthers>>

\* the frontend invokes stop_native_capture
CallStopNativeCapture ==
  /\ recorder # NoRecorder
  /\ Len(recorder.stops) < MaxStopCalls
  /\ recorder' = [recorder EXCEPT !.stops = Append(@, "store")]
  /\ call' = [fn |-> "stop_native_capture"]
  /\ done' = FALSE
  /\ UNCHANGED <<result, CaptureOthers>>

\* state.is_recording.store(false), then the sleep of 100 ms
StopStore(j) ==
  /\ j <= Len(recorder.stops)
  /\ recorder.stops[j] = "store"
  /\ recorder' = [recorder EXCEPT !.is_recording = FALSE, !.stops[j] = "sleep"]
  /\ UNCHANGED <<call, result, done, CaptureOthers>>

\* the sleep is over: the counters are read and the stats returned
StopReturn(j) ==
  /\ j <= Len(recorder.stops)
  /\ recorder.stops[j] = "sleep"
  /\ recorder' = [recorder EXCEPT !.stops[j] = "ok"]
  /\ result' = [fn |-> "stop_native_capture", ok |-> TRUE,
                value |-> [frames_captured |-> recorder.frame_count,
                           frames_dropped |-> recorder.frames_dropped]]
  /\ UNCHANGED <<call, done, CaptureOthers>>

\* no invocation of either command is in flight
CommandsIdle ==
  /\ \A k \in 1..Len(recorder.starts) : recorder.starts[k] \in {"ok", "err_already", "err_monitor"}
  /\ \A j \in 1..Len(recorder.stops) : recorder.stops[j] = "ok"

\* the last command in flight has returned
CommandsReturn ==
  /\ recorder # NoRecorder
  /\ ~done
  /\ CommandsIdle
  /\ done' = TRUE
  /\ UNCHANGED <<call, result, recorder, CaptureOthers>>

\* every start spawns at most one thread
CaptureThreads == 1..MaxStartCalls

NextCapture ==
  \/ CallStartNativeCapture \/ CallStopNativeCapture \/ CommandsReturn
  \/ \E k \in 1..MaxStartCalls : StartLoad(k)
  \/ \E k \in 1..MaxStartCalls : StartValidate(k)
  \/ \E k \in 1..MaxStartCalls : StartStoreRecording(k)
  \/ \E k \in 1..MaxStartCalls : StartStoreCount(k)
  \/ \E k \in 1..MaxStartCalls : StartStoreDropped(k)
  \/ \E k \in 1..MaxStartCalls : StartSetStartTime(k)
  \/ \E k \in 1..MaxStartCalls : StartClearBuffer(k)
  \/ \E k \in 1..MaxStartCalls : StartSpawn(k)
  \/ \E j \in 1..MaxStopCalls : StopStore(j)
  \/ \E j \in 1..MaxStopCalls : StopReturn(j)
  \/ \E t \in CaptureThreads : ThreadEnumerate(t)
  \/ \E t \in CaptureThreads : ThreadCheck(t)
  \/ \E t \in CaptureThreads : ThreadCapture(t)
  \/ \E t \in CaptureThreads : ThreadDrop(t)
  \/ \E t \in CaptureThreads : ThreadPush(t)

SpecCapture == InitCapture /\ [][NextCapture]_vars

\* the thread that pushed the newest frame of the buffer after the step
Pusher == recorder'.frame_buffer[Len(recorder'.frame_buffer)]

\* C28: at most one capture thread appends to the frame buffer at any
\* time, under every interleaving of start_native_capture and
\* stop_native_capture: whenever a frame is appended every other capture
\* thread has exited (a thread of an earlier start has exited before
\* frames of a later recording are appended), and a start that finds a
\* recording in progress fails with "Already recording" without changing
\* the counters or the buffer.
C28_OneCaptureThread ==
  /\ [][Len(recorder'.frame_buffer) > Len(recorder.frame_buffer) =>
          \A t \in 1..Len(recorder.threads) :
            t # Pusher => recorder.threads[t] = "exited"]_vars
  /\ [][\A k \in 1..Len(recorder.starts) :
          (recorder.is_recording /\ recorder.starts[k] = "load"
             /\ recorder'.starts[k] # "load") =>
            /\ recorder'.starts[k] = "err_already"
            /\ result'.value = "Already recording"
            /\ recorder'.frame_count = recorder.frame_count
            /\ recorder'.frames_dropped = recorder.frames_dropped
            /\ recorder'.frame_buffer = recorder.frame_buffer
            /\ recorder'.threads = recorder.threads]_vars

\* ---------------------------------------------------------------------
\* input.rs: the global input listener.  start_global_listener and
\* stop_global_listener share is_listening (a mutex around a bool); every
\* start that finds it false spawns a thread that blocks in rdev's
\* listen and runs the callback once per operating-system event.
\* ---------------------------------------------------------------------

MaxListenerStarts == 2
MaxListenerStops == 1
MaxInputEvents == 2

\* milliseconds between two operating-system events
EventGaps == {20, 40}

\* the move throttle of the callback, in ms
MoveThrottleMs == 33

EventTypes == {"ButtonPress", "MouseMove", "KeyPress"}

\* InputListenerState::default(); windows is the target of the build,
\* which decides what get_mouse_position returns for a button event
ListenerDefault(windows) ==
  [is_listening |-> FALSE, starts |-> <<>>, stops |-> 0, threads |-> <<>>,
   clock |-> 0, events |-> <<>>, emitted |-> <<>>, windows |-> windows]

InitListener ==
  /\ call = [fn |-> "none"]
  /\ result = <<>>
  /\ done = TRUE
  /\ compositor = NoCompositor
  /\ spring = NoSpring
  /\ tracker = NoTracker
  /\ encoder = NoEncoder
  /\ recorder = NoRecorder
  /\ listener \in {ListenerDefault(w) : w \in BOOLEAN}

ListenerOthers == <<compositor, spring, tracker, encoder, recorder>>

\* Some(position) or None, as a sequence of at most one element
get_mouse_position(event_type, windows) ==
  CASE event_type = "ButtonPress" -> IF windows THEN <<"pos">> ELSE <<>>
    [] event_type = "MouseMove" -> <<"pos">>
    [] OTHER -> <<>>

\* the frontend invokes start_global_listener
CallStartGlobalListener ==
  /\ Len(listener.starts) < MaxListenerStarts
  /\ listener' = [listener EXCEPT !.starts = Append(@, "lock")]
  /\ call' = [fn |-> "start_global_listener"]
  /\ done' = FALSE
  /\ UNCHANGED <<result, ListenerOthers>>

\* lock, return if *listening, else *listening = true, drop the guard
StartLock(k) ==
  /\ k <= Len(listener.starts)
  /\ listener.starts[k] = "lock"
  /\ IF listener.is_listening
     THEN listener' = [listener EXCEPT !.starts[k] = "returned"]
     ELSE listener' = [listener EXCEPT !.is_listening = TRUE, !.starts[k] = "spawn"]
  /\ UNCHANGED <<call, result, done, ListenerOthers>>

\* thread::spawn: start_time = Instant::now(), last_move_time = 0.0, listen
StartListenerSpawn(k) ==
  /\ k <= Len(listener.starts)
  /\ listener.starts[k] = "spawn"
  /\ listener' = [listener EXCEPT
                    !.starts[k] = "returned",
                    !.threads = Append(@, [state |-> "listen",
                                           start_time |-> listener.clock,
                                           last_move_time |-> 0,
                                           seen |-> Len(listener.events)])]
  /\ UNCHANGED <<call, result, done, ListenerOthers>>

\* stop_global_listener: lock, *listening = false
StopGlobalListener ==
  /\ listener.stops < MaxListenerStops
  /\ listener' = [listener EXCEPT !.is_listening = FALSE, !.stops = @ + 1]
  /\ call' = [fn |-> "stop_global_listener"]
  /\ result' = [fn |-> "stop_global_listener"]
  /\ done' = FALSE
  /\ UNCHANGED ListenerOthers

\* the operating system produces an input event
InputEvent ==
  /\ Len(listener.events) < MaxInputEvents
  /\ \E ty \in EventTypes, gap \in EventGaps :
       listener' = [listener EXCEPT
                       !.clock = @ + gap,
                       !.events = Append(@, [event_type |-> ty, time |-> listener.clock + gap])]
  /\ UNCHANGED <<call, result, done, ListenerOthers>>

\* what one run of the callback of thread t on the event does to the
\* thread and to the events the frontend has received
Callback(self, t, n) ==
  LET th == self.threads[t]
      event == self.events[n]
      elapsed == event.time - th.start_time
      handled == [self EXCEPT !.threads[t].seen = n]
  IN  IF ~self.is_listening THEN handled
      ELSE CASE event.event_type = "ButtonPress" ->
                  IF get_mouse_position(event.event_type, self.windows) # <<>>
                  THEN [handled EXCEPT !.emitted = Append(@,
                          [name |-> "global-click", time |-> elapsed,
                           thread |-> t, event |-> n])]
                  ELSE handled
             [] event.event_type = "MouseMove" ->
                  IF elapsed - th.last_move_time > MoveThrottleMs
                  THEN [handled EXCEPT
                          !.threads[t].last_move_time = elapsed,
                          !.emitted = Append(@,
                            [name |-> "global-mouse-move", time |-> elapsed,
                             thread |-> t, event |-> n])]
                  ELSE handled
             [] OTHER -> handled

\* listen runs the callback of thread t for the next event it has not seen
ListenCallback(t) ==
  /\ t <= Len(listener.threads)
  /\ listener.threads[t].state = "listen"
  /\ listener.threads[t].seen < Len(listener.events)
  /\ listener' = Callback(listener, t, listener.threads[t].seen + 1)
  /\ UNCHANGED <<call, result, done, ListenerOthers>>

\* listen returns an error: it is logged and the thread ends
ListenFails(t) ==
  /\ t <= Len(listener.threads)
  /\ listener.threads[t].state = "listen"
  /\ listener' = [listener EXCEPT !.threads[t].state = "exited"]
  /\ UNCHANGED <<call, result, done, ListenerOthers>>

\* no start_global_listener is in flight
ListenerIdle == \A k \in 1..Len(listener.starts) : listener.starts[k] = "returned"

\* the last command has returned
ListenerReturns ==
  /\ ~done
  /\ call.fn # "none"
  /\ ListenerIdle
  /\ done' = TRUE
  /\ result' = [fn |-> call.fn]
  /\ UNCHANGED <<call, listener, ListenerOthers>>

NextListener ==
  \/ CallStartGlobalListener \/ StopGlobalListener \/ InputEvent \/ ListenerReturns
  \/ \E k \in 1..MaxListenerStarts : StartLock(k)
  \/ \E k \in 1..MaxListenerStarts : StartListenerSpawn(k)
  \/ \E t \in 1..MaxListenerStarts : ListenCallback(t)
  \/ \E t \in 1..MaxListenerStarts : ListenFails(t)

SpecListener == InitListener /\ [][NextListener]_vars

\* the threads that emitted the n-th operating-system event
EmittersOf(n) ==
  {listener.emitted[i].thread : i \in {j \in 1..Len(listener.emitted) : listener.emitted[j].event = n}}

\* C29: at most one listener thread emits click/move events while
\* is_listening is true: no operating-system event reaches the frontend
\* from two threads, a start that finds is_listening true spawns no
\* thread, and a start after a stop leaves no earlier thread emitting.
C29_OneListenerThread ==
  /\ [](\A n \in 1..Len(listener.events) : Cardinality(EmittersOf(n)) <= 1)
  /\ [][\A k \in 1..Len(listener.starts) :
          (listener.is_listening /\ listener.starts[k] = "lock"
             /\ listener'.starts[k] # "lock") =>
            /\ listener'.starts[k] = "returned"
            /\ listener'.threads = listener.threads]_vars

====
